---- MODULE Spec2Model ----
(***************************************************************************)
(* Session lifecycle of the interview system: the session document kept   *)
(* in the MongoDB "sessions" collection and the operations of             *)
(* SessionManager, PhaseManager and the per-turn context stage on it.     *)
(*                                                                         *)
(* Conventions                                                             *)
(*  - a document is a function from field names to values; a dotted       *)
(*    update path "phases.technical.status" is the sequence                *)
(*    <<"phases", "technical", "status">>;                                 *)
(*  - datetime.now().isoformat() is the value of the variable clock, a    *)
(*    positive integer that every read advances (two reads of the system  *)
(*    clock never return the same instant); Python's None is the integer   *)
(*    None (0);                                                            *)
(*  - scores are fixed-point numbers in thousandths (0.35 is 350), so the  *)
(*    weighted sum and the threshold comparisons are exact;                *)
(*  - an operation of the code is one atomic action (calls are made one    *)
(*    at a time), whose result is recorded in the variable last; the       *)
(*    exception is update_metrics in SpecRace, split at its store read     *)
(*    and its store write so that two calls can interleave;                *)
(*  - a store call either is answered or raises in the driver; the         *)
(*    actions of SpecStore choose which.                                   *)
(***************************************************************************)
EXTENDS Integers, Sequences, FiniteSets, TLC

VARIABLES
    store,          \* the sessions collection: session id -> document
    clock,          \* datetime.now()
    pytest_loaded,  \* "pytest" in sys.modules
    last,           \* the last call: operation, arguments, returned value
    steps,          \* number of calls made so far (bounds a behaviour)
    inflight,       \* update_metrics calls between their read and write
    overlapped      \* history: some call read while another was in flight

vars == <<store, clock, pytest_loaded, last, steps, inflight, overlapped>>

\* the state of the calls that run concurrently
concurrent == <<inflight, overlapped>>

-----------------------------------------------------------------------------
(* Bounds of the model *)

MaxSteps == 3

SessionIds == {"s1"}
CandidateIds == {"test_candidate"}
UnknownPhase == "bonus_round"
Reasons == {"", "red flag"}
ExitTypes == {"normal", "immediate", "mid_interview"}

-----------------------------------------------------------------------------
(* Values *)

None == 0

PHASE_SEQUENCE ==
    <<"pre_interview", "introduction", "technical", "behavioral", "wrap_up">>

PhaseNames == {PHASE_SEQUENCE[i] : i \in 1..Len(PHASE_SEQUENCE)}

PhaseInputs == PhaseNames \cup {UnknownPhase}

\* list.index(phase), 1-based
IndexOf(phase) == CHOOSE i \in 1..Len(PHASE_SEQUENCE) : PHASE_SEQUENCE[i] = phase

AgentNames ==
    {"consent_compliance", "technical_evaluation", "behavioral_assessment",
     "time_management", "orchestrator", "feedback_compilation",
     "question_management", "transition_coordinator", "emergency_handler",
     "metrics_collection"}

EmptyDoc == [k \in {} |-> None]

InitialPhases ==
    [pre_interview |->
        [status |-> "pending", start_time |-> None, end_time |-> None,
         room_created |-> FALSE, system_initialized |-> FALSE,
         metrics_prepared |-> FALSE],
     introduction |->
        [status |-> "pending", start_time |-> None, end_time |-> None,
         consent_obtained |-> FALSE, background_verified |-> FALSE],
     technical |->
        [status |-> "pending", start_time |-> None, end_time |-> None,
         system_design_complete |-> FALSE, coding_challenge_complete |-> FALSE,
         architecture_assessment_complete |-> FALSE],
     behavioral |->
        [status |-> "pending", start_time |-> None, end_time |-> None,
         leadership_assessed |-> FALSE, problem_solving_assessed |-> FALSE,
         collaboration_assessed |-> FALSE],
     wrap_up |->
        [status |-> "pending", start_time |-> None, end_time |-> None,
         questions_addressed |-> FALSE, next_steps_provided |-> FALSE]]

\* faulty variant: only the core scores are initialised
InitialMetrics_CoreOnly ==
    [technical_score |-> 0, behavioral_score |-> 0, cultural_score |-> 0]

InitialMetrics ==
    [technical_score |-> 0, behavioral_score |-> 0, cultural_score |-> 0,
     overall_score |-> 0, response_quality |-> 0, time_management |-> 0,
     technical_depth |-> 0, system_design_depth |-> 0, coding_depth |-> 0,
     architecture_depth |-> 0, behavioral_indicators |-> 0,
     leadership_indicators |-> 0, problem_solving_indicators |-> 0,
     collaboration_indicators |-> 0]

\* the document create_session inserts
NewSessionDoc(candidate_id, now) ==
    [candidate_id |-> candidate_id,
     start_time |-> now,
     end_time |-> None,
     current_phase |-> "pre_interview",
     phases |-> InitialPhases,
     agents |-> [a \in AgentNames |->
                    [status |-> "inactive", metrics |-> EmptyDoc,
                     last_action |-> None]],
     responses |-> EmptyDoc,
     metrics |-> InitialMetrics,
     eligibility_checks |->
        [work_authorization |-> FALSE, remote_work |-> FALSE,
         relocation |-> FALSE, travel |-> FALSE],
     exit_criteria |->
        [immediate_flags |-> <<>>, performance_threshold |-> None,
         completion_status |-> "pending"]]

-----------------------------------------------------------------------------
(* The store: update_one with $set on dotted paths *)

\* $set of one dotted path: only the named leaf is replaced, a missing
\* intermediate document is created
RECURSIVE SetPath(_, _, _)
SetPath(doc, path, value) ==
    IF Len(path) = 1
    THEN (path[1] :> value) @@ doc
    ELSE (path[1] :> SetPath(IF path[1] \in DOMAIN doc THEN doc[path[1]]
                                                        ELSE EmptyDoc,
                             Tail(path), value)) @@ doc

\* $set of a dict of dotted paths, given as a sequence of <<path, value>>
RECURSIVE ApplySet(_, _)
ApplySet(doc, data) ==
    IF data = <<>> THEN doc
    ELSE ApplySet(SetPath(doc, data[1][1], data[1][2]), Tail(data))

\* a call's outcome: the collection after it and the value it returns
Outcome(st, ret) == [store |-> st, ret |-> ret]

\* SessionManager.update_session_data: modified_count > 0 exactly when a
\* document matched and the $set changed it
\* faulty variant: the filter is lost and the $set reaches every document
update_session_data_EveryDocument(st, session_id, data) ==
    IF session_id \in DOMAIN st
    THEN LET new == [s \in DOMAIN st |-> ApplySet(st[s], data)]
         IN  Outcome(new, new # st)
    ELSE Outcome(st, FALSE)

update_session_data(st, session_id, data) ==
    IF session_id \in DOMAIN st
    THEN LET new == [st EXCEPT ![session_id] = ApplySet(@, data)]
         IN  Outcome(new, new # st)
    ELSE Outcome(st, FALSE)

-----------------------------------------------------------------------------
(* SessionManager: phase primitives *)

SMStartPhaseData(phase, now) ==
    << << <<"phases", phase, "status">>, "active" >>,
       << <<"phases", phase, "start_time">>, now >>,
       << <<"current_phase">>, phase >> >>

SM_start_phase(st, session_id, phase, now) ==
    update_session_data(st, session_id, SMStartPhaseData(phase, now))

\* faulty variant: ending a phase also makes it the current phase
SMEndPhaseData_MovesCurrent(phase, now) ==
    << << <<"phases", phase, "status">>, "completed" >>,
       << <<"phases", phase, "end_time">>, now >>,
       << <<"current_phase">>, phase >> >>

\* faulty variant: the end time is written, the status is left as it was
SMEndPhaseData_TimeOnly(phase, now) ==
    << << <<"phases", phase, "end_time">>, now >> >>

SMEndPhaseData(phase, now) ==
    << << <<"phases", phase, "status">>, "completed" >>,
       << <<"phases", phase, "end_time">>, now >> >>

\* faulty variant: only an active phase is ended
SM_end_phase_ActiveOnly(st, session_id, phase, now) ==
    IF session_id \in DOMAIN st
       /\ (phase \notin DOMAIN st[session_id].phases
           \/ st[session_id].phases[phase].status # "active")
    THEN [store |-> st, ret |-> FALSE]
    ELSE update_session_data(st, session_id, SMEndPhaseData(phase, now))

SM_end_phase(st, session_id, phase, now) ==
    update_session_data(st, session_id, SMEndPhaseData(phase, now))

-----------------------------------------------------------------------------
(* PhaseManager *)

\* session_data["phases"].get(prev_phase, {}).get("status")
StoredStatus(doc, phase) ==
    IF phase \in DOMAIN doc.phases /\ "status" \in DOMAIN doc.phases[phase]
    THEN doc.phases[phase].status
    ELSE "None"

\* faulty variant: only a pending predecessor blocks the start
OrderingRefuses_PendingOnly(doc, phase, pytest) ==
    /\ IndexOf(phase) > 1
    /\ ~pytest
    /\ StoredStatus(doc, PHASE_SEQUENCE[IndexOf(phase) - 1]) = "pending"

\* the ordering check of PhaseManager.start_phase: TRUE when the start is
\* refused
OrderingRefuses(doc, phase, pytest) ==
    /\ IndexOf(phase) > 1
    /\ ~pytest
    /\ StoredStatus(doc, PHASE_SEQUENCE[IndexOf(phase) - 1]) # "completed"

\* faulty variant: a name outside the sequence is passed on
PM_start_phase_AnyName(st, session_id, phase, now, pytest) ==
    IF session_id \notin DOMAIN st THEN Outcome(st, FALSE)
    ELSE IF phase \in PhaseNames
            /\ OrderingRefuses(st[session_id], phase, pytest)
         THEN Outcome(st, FALSE)
    ELSE SM_start_phase(st, session_id, phase, now)

PM_start_phase(st, session_id, phase, now, pytest) ==
    IF phase \notin PhaseNames THEN Outcome(st, FALSE)
    ELSE IF session_id \notin DOMAIN st THEN Outcome(st, FALSE)
    ELSE IF OrderingRefuses(st[session_id], phase, pytest)
         THEN Outcome(st, FALSE)
    ELSE SM_start_phase(st, session_id, phase, now)

PM_end_phase(st, session_id, phase, now) ==
    SM_end_phase(st, session_id, phase, now)

-----------------------------------------------------------------------------
(* SessionManager.end_session: now is read first; end_phase, when it is   *)
(* called, reads the clock after it                                       *)

RECURSIVE SkipData(_, _, _)
\* the cascade: phases.<p>.status = "skipped" (and skip_reason when a reason
\* is given) for every p of PHASE_SEQUENCE[from:]
SkipData(from, upto, reason) ==
    IF from > upto THEN <<>>
    ELSE << << <<"phases", PHASE_SEQUENCE[from], "status">>, "skipped" >> >>
         \o (IF reason # ""
             THEN << << <<"phases", PHASE_SEQUENCE[from], "skip_reason">>,
                        reason >> >>
             ELSE <<>>)
         \o SkipData(from + 1, upto, reason)

\* faulty variant: the cascade starts after the current phase
CascadeFrom_AfterCurrent(current_phase) == IndexOf(current_phase) + 1

\* phase_sequence.index(current_phase): where the cascade starts
CascadeFrom(current_phase) == IndexOf(current_phase)

\* faulty variant: the end time is written without the exit criteria
ExitData_TimeOnly(exit_type, reason, now) ==
    << << <<"end_time">>, now >> >>

\* lines 385-393: the fields end_session always writes
ExitData(exit_type, reason, now) ==
    << << <<"end_time">>, now >>,
       << <<"exit_criteria", "exit_type">>, exit_type >>,
       << <<"exit_criteria", "completion_status">>, "completed" >> >>
    \o (IF reason # ""
        THEN << << <<"exit_criteria", "exit_reason">>, reason >> >>
        ELSE <<>>)

\* lines 396-410: the cascade of an immediate exit, from the document read
CascadeData(doc, exit_type, reason) ==
    IF exit_type = "immediate" /\ doc.current_phase \in PhaseNames
    THEN SkipData(CascadeFrom(doc.current_phase), Len(PHASE_SEQUENCE), reason)
    ELSE <<>>

EndSessionData(doc, exit_type, reason, now) ==
    ExitData(exit_type, reason, now) \o CascadeData(doc, exit_type, reason)

\* session_data["phases"][current_phase]["status"] raises KeyError
CurrentPhaseLookupRaises(doc) ==
    \/ doc.current_phase \notin DOMAIN doc.phases
    \/ "status" \notin DOMAIN doc.phases[doc.current_phase]

\* The store calls end_session makes, in order: the read of the cascade, the
\* read before ending the current phase, the write of end_phase and the
\* final write.  up tells which of them the store answers; a call the store
\* does not answer raises in the driver, and get_session_data and
\* update_session_data catch it and return None and False.
StoreCalls == {"cascade_read", "phase_read", "end_phase_write", "final_write"}
StoreAnswers == [StoreCalls -> BOOLEAN]
AllAnswered == [c \in StoreCalls |-> TRUE]

\* update_session_data when the store may not answer
update_session_data_on(st, session_id, data, answered) ==
    IF answered THEN update_session_data(st, session_id, data)
    ELSE Outcome(st, FALSE)

end_session(st, session_id, exit_type, reason, now, up) ==
    LET cascade_read == up["cascade_read"] /\ session_id \in DOMAIN st
        phase_read == up["phase_read"] /\ session_id \in DOMAIN st
        updates == IF cascade_read
                   THEN EndSessionData(st[session_id], exit_type, reason, now)
                   ELSE ExitData(exit_type, reason, now)
        final(s) == update_session_data_on(s, session_id, updates,
                                           up["final_write"])
    IN  IF ~phase_read THEN final(st)
        ELSE LET doc == st[session_id]
             IN  IF doc.current_phase = "" THEN final(st)
                 ELSE IF CurrentPhaseLookupRaises(doc) THEN Outcome(st, FALSE)
                 ELSE IF doc.phases[doc.current_phase].status = "active" THEN
                     final(update_session_data_on(
                               st, session_id,
                               SMEndPhaseData(doc.current_phase, now + 1),
                               up["end_phase_write"]).store)
                 ELSE final(st)

-----------------------------------------------------------------------------
(* SessionManager.update_metrics *)

CoreKeys == {"technical_score", "behavioral_score", "cultural_score"}

RealtimeKeys ==
    {"response_quality", "time_management", "technical_depth",
     "system_design_depth", "coding_depth", "architecture_depth",
     "behavioral_indicators", "leadership_indicators",
     "problem_solving_indicators", "collaboration_indicators"}

\* weights, in tenths
weights ==
    [technical_score |-> 5, behavioral_score |-> 3, cultural_score |-> 2]

\* dict.get(key, default)
Get(dict, key, default) == IF key \in DOMAIN dict THEN dict[key] ELSE default

\* {k: v for k, v in metrics.items() if k in keys}
Restrict(metrics, keys) == [k \in DOMAIN metrics \cap keys |-> metrics[k]]

\* the $set entries metrics.<k> = v of a dict, in some order
RECURSIVE MetricData(_)
MetricData(dict) ==
    IF DOMAIN dict = {} THEN <<>>
    ELSE LET k == CHOOSE x \in DOMAIN dict : TRUE
         IN  << << <<"metrics", k>>, dict[k] >> >>
             \o MetricData([x \in DOMAIN dict \ {k} |-> dict[x]])

\* faulty variant: the three scores count equally
WeightedSum_Unweighted(updated_metrics) ==
    (  Get(updated_metrics, "technical_score", 0)
     + Get(updated_metrics, "behavioral_score", 0)
     + Get(updated_metrics, "cultural_score", 0))
    \div 3

\* sum(updated_metrics.get(key, 0.0) * weight for key, weight in weights)
WeightedSum(updated_metrics) ==
    (  Get(updated_metrics, "technical_score", 0) * weights.technical_score
     + Get(updated_metrics, "behavioral_score", 0) * weights.behavioral_score
     + Get(updated_metrics, "cultural_score", 0) * weights.cultural_score)
    \div 10

\* faulty variant: the weighted sum is taken over the update alone
MergedMetrics_UpdateOnly(doc, core_metrics) == core_metrics

\* current_metrics.copy() updated with core_metrics
MergedMetrics(doc, core_metrics) == core_metrics @@ Get(doc, "metrics", EmptyDoc)

\* the $set update_metrics builds for a session-level payload
MetricUpdates(st, session_id, metrics) ==
    LET core_metrics == Restrict(metrics, CoreKeys)
        realtime_metrics == Restrict(metrics, RealtimeKeys)
    IN  (IF DOMAIN core_metrics # {}
         THEN MetricData(core_metrics)
              \o (IF session_id \in DOMAIN st
                  THEN << << <<"metrics", "overall_score">>,
                             WeightedSum(MergedMetrics(st[session_id],
                                                       core_metrics)) >> >>
                  ELSE <<>>)
         ELSE <<>>)
        \o MetricData(realtime_metrics)

\* agent is "" for None; with an agent the $set is issued and True returned
\* whatever it matched
update_metrics(st, session_id, metrics, agent) ==
    IF agent # ""
    THEN Outcome(update_session_data(st, session_id,
                    << << <<"agents", agent, "metrics">>, metrics >> >>).store,
                 TRUE)
    ELSE LET metric_updates == MetricUpdates(st, session_id, metrics)
         IN  IF metric_updates # <<>>
             THEN update_session_data(st, session_id, metric_updates)
             ELSE Outcome(st, TRUE)

-----------------------------------------------------------------------------
(* SessionManager.check_exit_criteria *)

ImmediateBehavioral == 200
ImmediateTechnical == 100
MidTechnical == 400
MidBehavioral == 300
MidOverall == 350

\* "; ".join(flags)
RECURSIVE Join(_)
Join(flags) ==
    IF flags = <<>> THEN ""
    ELSE IF Len(flags) = 1 THEN flags[1]
    ELSE flags[1] \o "; " \o Join(Tail(flags))

ReturnsNone == [returned |-> "None"]

ExitDecision(exit_type, flags) ==
    [returned |-> "dict", exit_type |-> exit_type, reason |-> Join(flags)]

When(cond, flag) == IF cond THEN <<flag>> ELSE <<>>

\* faulty variant: the score thresholds are inclusive
immediate_flags_inclusive(doc, pytest) ==
    LET metrics == Get(doc, "metrics", EmptyDoc)
        eligibility == Get(doc, "eligibility_checks", EmptyDoc)
    IN  When(~Get(eligibility, "work_authorization", FALSE) /\ ~pytest,
             "Work authorization requirements not met")
        \o When(Get(metrics, "behavioral_score", 0) <= ImmediateBehavioral,
                "Critical behavioral concerns identified")
        \o When(Get(metrics, "technical_score", 0) <= ImmediateTechnical,
                "Fundamental technical capability issues")

\* faulty variant: the work authorization flag is never consulted
immediate_flags_no_authorization(doc, pytest) ==
    LET metrics == Get(doc, "metrics", EmptyDoc)
    IN  When(Get(metrics, "behavioral_score", 0) < ImmediateBehavioral,
             "Critical behavioral concerns identified")
        \o When(Get(metrics, "technical_score", 0) < ImmediateTechnical,
                "Fundamental technical capability issues")

immediate_flags(doc, pytest) ==
    LET metrics == Get(doc, "metrics", EmptyDoc)
        eligibility == Get(doc, "eligibility_checks", EmptyDoc)
    IN  When(~Get(eligibility, "work_authorization", FALSE) /\ ~pytest,
             "Work authorization requirements not met")
        \o When(Get(metrics, "behavioral_score", 0) < ImmediateBehavioral,
                "Critical behavioral concerns identified")
        \o When(Get(metrics, "technical_score", 0) < ImmediateTechnical,
                "Fundamental technical capability issues")

\* faulty variant: the comparisons are reversed
threshold_failures_reversed(doc) ==
    LET metrics == Get(doc, "metrics", EmptyDoc)
    IN  When(Get(metrics, "technical_score", 0) > MidTechnical,
             "Technical evaluation below minimum threshold")
        \o When(Get(metrics, "behavioral_score", 0) > MidBehavioral,
                "Behavioral assessment below acceptable level")
        \o When(Get(metrics, "overall_score", 0) > MidOverall,
                "Overall performance insufficient")

\* faulty variant: the performance thresholds are inclusive
threshold_failures_inclusive(doc) ==
    LET metrics == Get(doc, "metrics", EmptyDoc)
    IN  When(Get(metrics, "technical_score", 0) <= MidTechnical,
             "Technical evaluation below minimum threshold")
        \o When(Get(metrics, "behavioral_score", 0) <= MidBehavioral,
                "Behavioral assessment below acceptable level")
        \o When(Get(metrics, "overall_score", 0) <= MidOverall,
                "Overall performance insufficient")

threshold_failures(doc) ==
    LET metrics == Get(doc, "metrics", EmptyDoc)
    IN  When(Get(metrics, "technical_score", 0) < MidTechnical,
             "Technical evaluation below minimum threshold")
        \o When(Get(metrics, "behavioral_score", 0) < MidBehavioral,
                "Behavioral assessment below acceptable level")
        \o When(Get(metrics, "overall_score", 0) < MidOverall,
                "Overall performance insufficient")

MidInterviewPhases == {"technical", "behavioral"}

\* faulty variant: nothing is reported while the session is in pre_interview
check_exit_criteria_AfterPreInterview(st, session_id, pytest) ==
    IF session_id \notin DOMAIN st THEN ReturnsNone
    ELSE LET doc == st[session_id]
         IN  IF Get(doc, "current_phase", "") = "pre_interview"
             THEN ReturnsNone
             ELSE IF immediate_flags(doc, pytest) # <<>>
             THEN ExitDecision("immediate", immediate_flags(doc, pytest))
             ELSE IF /\ Get(doc, "current_phase", "") \in MidInterviewPhases
                     /\ threshold_failures(doc) # <<>>
             THEN ExitDecision("mid_interview", threshold_failures(doc))
             ELSE ReturnsNone

check_exit_criteria(st, session_id, pytest) ==
    IF session_id \notin DOMAIN st THEN ReturnsNone
    ELSE LET doc == st[session_id]
         IN  IF immediate_flags(doc, pytest) # <<>>
             THEN ExitDecision("immediate", immediate_flags(doc, pytest))
             ELSE IF /\ Get(doc, "current_phase", "") \in MidInterviewPhases
                     /\ threshold_failures(doc) # <<>>
             THEN ExitDecision("mid_interview", threshold_failures(doc))
             ELSE ReturnsNone

-----------------------------------------------------------------------------
(* Calls *)

NoCall ==
    [op |-> "none", session_id |-> "", phase |-> "", exit_type |-> "",
     reason |-> "", response |-> "", agent |-> "", keys |-> {}, ret |-> FALSE,
     raised |-> FALSE, result |-> [returned |-> "None"]]

\* the record of a call: its name and the arguments and results given
Call(op, fields) == fields @@ [NoCall EXCEPT !.op = op]

\* the callers of update_metrics that may run at the same time, and a caller
\* with no call in flight
Callers == {"a", "b"}
Idle == [pc |-> "idle", session_id |-> "", keys |-> {}, metric_updates |-> <<>>]

Init ==
    /\ store = EmptyDoc
    /\ clock = 1
    /\ pytest_loaded \in BOOLEAN
    /\ last = NoCall
    /\ steps = 0
    /\ inflight = [c \in Callers |-> Idle]
    /\ overlapped = FALSE

CreateSession ==
    \E sid \in SessionIds \ DOMAIN store, c \in CandidateIds :
        /\ store' = (sid :> NewSessionDoc(c, clock)) @@ store
        /\ last' = Call("create_session", [session_id |-> sid, ret |-> TRUE])
        /\ clock' = clock + 1
        /\ UNCHANGED <<pytest_loaded, steps, concurrent>>

\* one call: the collection after it, the record of the call
Returns(out, call) ==
    /\ store' = out.store
    /\ last' = call

SMStartPhase ==
    /\ steps < MaxSteps
    /\ \E sid \in SessionIds, p \in PhaseInputs :
        LET out == SM_start_phase(store, sid, p, clock)
        IN  Returns(out, Call("sm_start_phase",
                         [session_id |-> sid, phase |-> p, ret |-> out.ret]))
    /\ steps' = steps + 1
    /\ clock' = clock + 1
    /\ UNCHANGED <<pytest_loaded, concurrent>>

SMEndPhase ==
    /\ steps < MaxSteps
    /\ \E sid \in SessionIds, p \in PhaseInputs :
        LET out == SM_end_phase(store, sid, p, clock)
        IN  Returns(out, Call("sm_end_phase",
                         [session_id |-> sid, phase |-> p, ret |-> out.ret]))
    /\ steps' = steps + 1
    /\ clock' = clock + 1
    /\ UNCHANGED <<pytest_loaded, concurrent>>

PMStartPhase ==
    /\ steps < MaxSteps
    /\ \E sid \in SessionIds, p \in PhaseInputs :
        LET out == PM_start_phase(store, sid, p, clock, pytest_loaded)
        IN  Returns(out, Call("pm_start_phase",
                         [session_id |-> sid, phase |-> p, ret |-> out.ret]))
    /\ steps' = steps + 1
    /\ clock' = clock + 1
    /\ UNCHANGED <<pytest_loaded, concurrent>>

PMEndPhase ==
    /\ steps < MaxSteps
    /\ \E sid \in SessionIds, p \in PhaseInputs :
        LET out == PM_end_phase(store, sid, p, clock)
        IN  Returns(out, Call("pm_end_phase",
                         [session_id |-> sid, phase |-> p, ret |-> out.ret]))
    /\ steps' = steps + 1
    /\ clock' = clock + 1
    /\ UNCHANGED <<pytest_loaded, concurrent>>

EndSession ==
    /\ steps < MaxSteps
    /\ \E sid \in SessionIds, x \in ExitTypes, r \in Reasons :
        LET out == end_session(store, sid, x, r, clock, AllAnswered)
        IN  Returns(out, Call("end_session",
                         [session_id |-> sid, exit_type |-> x, reason |-> r,
                          ret |-> out.ret]))
    /\ steps' = steps + 1
    /\ clock' = clock + 2
    /\ UNCHANGED <<pytest_loaded, concurrent>>

\* InterviewContextManager._process_assistant_context with next_phase
NextPhaseRequest ==
    /\ steps < MaxSteps
    /\ \E sid \in SessionIds, p \in PhaseInputs :
        LET out == update_session_data(store, sid,
                                       << << <<"current_phase">>, p >> >>)
        IN  Returns(out, Call("next_phase",
                         [session_id |-> sid, phase |-> p, ret |-> out.ret]))
    /\ steps' = steps + 1
    /\ UNCHANGED <<clock, pytest_loaded, concurrent>>

-----------------------------------------------------------------------------
(* Scores and payloads of the metric calls *)

TechnicalValues == {50, 100, 400}
BehavioralValues == {100, 200, 300}
CulturalValues == {300}

CorePayloads ==
    {t @@ b @@ c :
        t \in {EmptyDoc} \cup {[technical_score |-> v] : v \in TechnicalValues},
        b \in {EmptyDoc} \cup {[behavioral_score |-> v] : v \in BehavioralValues},
        c \in {EmptyDoc} \cup {[cultural_score |-> v] : v \in CulturalValues}}

\* payloads with a key besides the core scores: a caller-supplied
\* overall_score, an indicator
ExtraPayloads ==
    {core @@ extra :
        core \in {EmptyDoc, [technical_score |-> 400]},
        extra \in {[overall_score |-> 300], [response_quality |-> 900]}}

MetricsPayloads == CorePayloads \cup ExtraPayloads

UpdateMetrics ==
    /\ \E sid \in SessionIds, metrics \in MetricsPayloads :
        LET out == update_metrics(store, sid, metrics, "")
        IN  Returns(out, Call("update_metrics",
                         [session_id |-> sid, keys |-> DOMAIN metrics,
                          ret |-> out.ret]))
    /\ UNCHANGED <<clock, pytest_loaded, steps, concurrent>>

CheckExitCriteria ==
    /\ \E sid \in SessionIds :
        /\ last' = Call("check_exit_criteria",
                        [session_id |-> sid,
                         result |-> check_exit_criteria(store, sid,
                                                        pytest_loaded)])
        /\ store' = store
    /\ UNCHANGED <<clock, pytest_loaded, steps, concurrent>>

\* update_session_data(session_id, {"current_phase": phase}), as the tests
\* and the orchestrator call it
UpdateCurrentPhase ==
    /\ \E sid \in SessionIds, p \in PhaseInputs :
        LET out == update_session_data(store, sid,
                                       << << <<"current_phase">>, p >> >>)
        IN  Returns(out, Call("update_session_data",
                         [session_id |-> sid, phase |-> p, ret |-> out.ret]))
    /\ UNCHANGED <<clock, pytest_loaded, steps, concurrent>>

\* update_session_data(session_id,
\*                     {"eligibility_checks.work_authorization": flag})
UpdateWorkAuthorization ==
    /\ \E sid \in SessionIds, flag \in BOOLEAN :
        LET out == update_session_data(store, sid,
                     << << <<"eligibility_checks", "work_authorization">>,
                           flag >> >>)
        IN  Returns(out, Call("update_session_data",
                         [session_id |-> sid, ret |-> out.ret]))
    /\ UNCHANGED <<clock, pytest_loaded, steps, concurrent>>

Next ==
    \/ CreateSession
    \/ SMStartPhase
    \/ SMEndPhase
    \/ PMStartPhase
    \/ PMEndPhase
    \/ EndSession
    \/ NextPhaseRequest

Spec == Init /\ [][Next]_vars

\* the Phase Manager alone, outside a pytest run (the ordering check is on)
InitPM ==
    /\ Init
    /\ ~pytest_loaded

NextPM ==
    \/ CreateSession
    \/ PMStartPhase
    \/ PMEndPhase

SpecPM == InitPM /\ [][NextPM]_vars

\* metrics and exit criteria
NextMetrics ==
    \/ CreateSession
    \/ UpdateMetrics
    \/ CheckExitCriteria
    \/ UpdateCurrentPhase
    \/ UpdateWorkAuthorization

SpecMetrics == Init /\ [][NextMetrics]_vars

-----------------------------------------------------------------------------
(* Properties *)

Sessions == DOMAIN store

\* the phases of a session whose stored status is the given one
PhasesIn(doc, status) ==
    {p \in DOMAIN doc.phases : StoredStatus(doc, p) = status}

\* the step is a call of op addressed to an existing session
Called(op) ==
    /\ last'.op = op
    /\ last'.session_id \in Sessions

\* C1: in every reachable state of a session at most one phase has status
\* active.
C1_AtMostOneActive ==
    \A sid \in Sessions : Cardinality(PhasesIn(store[sid], "active")) <= 1

C3_PredecessorsDone ==
    \A sid \in Sessions :
        \A i, j \in 1..Len(PHASE_SEQUENCE) :
            (i < j /\ StoredStatus(store[sid], PHASE_SEQUENCE[j]) = "active")
            => StoredStatus(store[sid], PHASE_SEQUENCE[i])
                   \in {"completed", "skipped"}

\* C8: end_session with exit_type immediate marks every phase from
\* current_phase to the end of the sequence as skipped, with the exit reason
\* as skip reason, and leaves the status of every earlier phase unchanged.
C8_ImmediateCascade ==
    [][(Called("end_session") /\ last'.exit_type = "immediate"
            /\ store[last'.session_id].current_phase \in PhaseNames)
        => LET sid == last'.session_id
               current_idx == IndexOf(store[sid].current_phase)
           IN  \A i \in 1..Len(PHASE_SEQUENCE) :
                   LET before == store[sid].phases[PHASE_SEQUENCE[i]]
                       after == store'[sid].phases[PHASE_SEQUENCE[i]]
                   IN  IF i >= current_idx
                       THEN /\ after.status = "skipped"
                            /\ last'.reason # ""
                                 => /\ "skip_reason" \in DOMAIN after
                                    /\ after.skip_reason = last'.reason
                       ELSE after.status = before.status]_vars

\* C8 witness: the session was ended with exit_type immediate and a reason
\* while current_phase was technical and pre_interview was completed.
C8_Witness ==
    /\ last.op = "end_session"
    /\ last.exit_type = "immediate"
    /\ last.reason # ""
    /\ last.ret = TRUE
    /\ last.session_id \in Sessions
    /\ LET doc == store[last.session_id]
       IN  /\ doc.current_phase = "technical"
           /\ doc.phases["pre_interview"].status = "completed"
           /\ doc.phases["introduction"].status = "pending"
           /\ doc.phases["technical"].status = "skipped"
           /\ doc.phases["technical"].skip_reason = last.reason
           /\ doc.phases["wrap_up"].status = "skipped"

\* C9: end_session with exit_type immediate never turns a phase whose status
\* is completed into skipped.
C9_CompletedNotSkipped ==
    [][(Called("end_session") /\ last'.exit_type = "immediate")
        => \A p \in PhaseNames :
               store[last'.session_id].phases[p].status = "completed"
               => store'[last'.session_id].phases[p].status # "skipped"]_vars

\* C10: end_time is set at most once: once set, no later operation changes
\* it.
C10_EndTimeSetOnce ==
    [][\A sid \in Sessions :
           store[sid].end_time # None
           => store'[sid].end_time = store[sid].end_time]_vars

-----------------------------------------------------------------------------
(* Properties of the metrics and of the exit criteria *)

\* the call recorded in last was addressed to an existing session
Answered(op) ==
    /\ last.op = op
    /\ last.session_id \in Sessions

\* C4: after any sequence of update_metrics calls made one at a time, the
\* stored overall_score is 0.5*technical_score + 0.3*behavioral_score +
\* 0.2*cultural_score over the stored core scores (a score omitted from a
\* call keeps its stored value).
C4_OverallIsWeightedSum ==
    \A sid \in Sessions :
        LET m == store[sid].metrics
        IN  10 * m.overall_score
              = 5 * m.technical_score + 3 * m.behavioral_score
                + 2 * m.cultural_score

\* C4 witness: a call that supplied behavioral_score alone succeeded on a
\* session that keeps a technical score stored by an earlier call.
C4_Witness ==
    /\ Answered("update_metrics")
    /\ last.keys = {"behavioral_score"}
    /\ last.ret = TRUE
    /\ store[last.session_id].metrics.technical_score = 400
    /\ store[last.session_id].metrics.behavioral_score = 300
    /\ store[last.session_id].metrics.overall_score = 290

\* the immediate conditions as the specification states them
WorkAuthorizationMissing(doc) == ~doc.eligibility_checks.work_authorization
BehavioralCritical(doc) == doc.metrics.behavioral_score < 200
TechnicalCritical(doc) == doc.metrics.technical_score < 100

\* C5: check_exit_criteria returns exit_type immediate whenever
\* behavioral_score < 0.2 or technical_score < 0.1, in any phase, with strict
\* comparison; the reason holds the description of every triggered condition
\* joined by semicolons, and mid_interview is never returned when an
\* immediate condition holds.
C5_ImmediateOnScores ==
    Answered("check_exit_criteria")
    => LET doc == store[last.session_id]
           work == When(WorkAuthorizationMissing(doc) /\ ~pytest_loaded,
                        "Work authorization requirements not met")
           behavioral == When(BehavioralCritical(doc),
                              "Critical behavioral concerns identified")
           technical == When(TechnicalCritical(doc),
                             "Fundamental technical capability issues")
       IN  /\ (BehavioralCritical(doc) \/ TechnicalCritical(doc))
                => /\ last.result.returned = "dict"
                   /\ last.result.exit_type = "immediate"
           /\ (last.result.returned = "dict"
                 /\ last.result.exit_type = "immediate")
                => /\ work \o behavioral \o technical # <<>>
                   /\ last.result.reason
                        = Join(work \o behavioral \o technical)

\* C5 witness: both score conditions triggered, and the reason names both.
C5_Witness ==
    /\ Answered("check_exit_criteria")
    /\ store[last.session_id].metrics.behavioral_score = 100
    /\ store[last.session_id].metrics.technical_score = 50
    /\ store[last.session_id].eligibility_checks.work_authorization
    /\ last.result.returned = "dict"
    /\ last.result.exit_type = "immediate"
    /\ last.result.reason
         = "Critical behavioral concerns identified; Fundamental technical capability issues"

\* C6, as claimed: check_exit_criteria returns exit_type immediate whenever
\* work_authorization is false, whatever the scores and the phase.
C6_ImmediateOnAuthorization ==
    (Answered("check_exit_criteria")
        /\ WorkAuthorizationMissing(store[last.session_id]))
    => /\ last.result.returned = "dict"
       /\ last.result.exit_type = "immediate"

\* C6, amended: outside a pytest run check_exit_criteria returns exit_type
\* immediate, with the work-authorization description first in the reason,
\* whenever work_authorization is false, whatever the scores and the phase;
\* in a pytest run the flag is not consulted and the result is decided by
\* the scores alone.
C6_ImmediateOutsidePytest ==
    (Answered("check_exit_criteria")
        /\ WorkAuthorizationMissing(store[last.session_id]))
    => LET doc == store[last.session_id]
           scores == When(BehavioralCritical(doc),
                          "Critical behavioral concerns identified")
                     \o When(TechnicalCritical(doc),
                             "Fundamental technical capability issues")
       IN  IF ~pytest_loaded
           THEN /\ last.result.returned = "dict"
                /\ last.result.exit_type = "immediate"
                /\ last.result.reason
                     = Join(<<"Work authorization requirements not met">>
                            \o scores)
           ELSE (last.result.returned = "dict"
                   /\ last.result.exit_type = "immediate")
                <=> scores # <<>>

\* C6 witness: outside pytest, a session with passing scores and no work
\* authorization gets an immediate exit.
C6_Witness ==
    /\ Answered("check_exit_criteria")
    /\ ~pytest_loaded
    /\ WorkAuthorizationMissing(store[last.session_id])
    /\ store[last.session_id].metrics.behavioral_score = 300
    /\ store[last.session_id].metrics.technical_score = 400
    /\ last.result.returned = "dict"
    /\ last.result.exit_type = "immediate"
    /\ last.result.reason = "Work authorization requirements not met"

\* C7: when no immediate condition holds, check_exit_criteria returns
\* exit_type mid_interview if and only if current_phase is technical or
\* behavioral and one of technical_score < 0.4, behavioral_score < 0.3,
\* overall_score < 0.35 holds, every failed threshold being named in the
\* reason; in every other phase it returns no exit.
C7_MidInterview ==
    (Answered("check_exit_criteria")
        /\ ~WorkAuthorizationMissing(store[last.session_id])
        /\ ~BehavioralCritical(store[last.session_id])
        /\ ~TechnicalCritical(store[last.session_id]))
    => LET doc == store[last.session_id]
           failed == When(doc.metrics.technical_score < 400,
                          "Technical evaluation below minimum threshold")
                     \o When(doc.metrics.behavioral_score < 300,
                             "Behavioral assessment below acceptable level")
                     \o When(doc.metrics.overall_score < 350,
                             "Overall performance insufficient")
       IN  IF doc.current_phase \in {"technical", "behavioral"}
              /\ failed # <<>>
           THEN /\ last.result.returned = "dict"
                /\ last.result.exit_type = "mid_interview"
                /\ last.result.reason = Join(failed)
           ELSE last.result.returned = "None"

\* C7 witness: in the behavioral phase, with both scores exactly at their
\* thresholds, the overall score alone is below its threshold.
C7_Witness ==
    /\ Answered("check_exit_criteria")
    /\ ~WorkAuthorizationMissing(store[last.session_id])
    /\ store[last.session_id].current_phase = "behavioral"
    /\ store[last.session_id].metrics.technical_score = 400
    /\ store[last.session_id].metrics.behavioral_score = 300
    /\ store[last.session_id].metrics.overall_score = 290
    /\ last.result.returned = "dict"
    /\ last.result.exit_type = "mid_interview"
    /\ last.result.reason = "Overall performance insufficient"

-----------------------------------------------------------------------------
(* Properties of ending a session *)

\* C11: after end_session, with any exit type, on a session whose current
\* phase is active, that phase has status completed and a recorded end time.
C11_ActivePhaseCompleted ==
    [][(Called("end_session")
            /\ StoredStatus(store[last'.session_id],
                            store[last'.session_id].current_phase) = "active")
        => LET sid == last'.session_id
               after == store'[sid].phases[store[sid].current_phase]
           IN  /\ after.status = "completed"
               /\ after.end_time # None]_vars

\* C12: once a session's end_time is set the session is immutable: no
\* operation issued afterwards changes the stored session document.
C12_ImmutableAfterEnd ==
    [][\A sid \in Sessions :
           store[sid].end_time # None => store'[sid] = store[sid]]_vars

-----------------------------------------------------------------------------
(* Calls made while the store may not answer *)

SMStartPhaseStore ==
    \E sid \in SessionIds, phase \in PhaseInputs, answered \in BOOLEAN :
        /\ steps < MaxSteps
        /\ Returns(update_session_data_on(store, sid,
                                          SMStartPhaseData(phase, clock),
                                          answered),
                   Call("sm_start_phase",
                        [session_id |-> sid, phase |-> phase,
                         ret |-> update_session_data_on(
                                     store, sid,
                                     SMStartPhaseData(phase, clock),
                                     answered).ret]))
        /\ steps' = steps + 1
        /\ clock' = clock + 1
        /\ UNCHANGED <<pytest_loaded, concurrent>>

SMEndPhaseStore ==
    \E sid \in SessionIds, phase \in PhaseInputs, answered \in BOOLEAN :
        /\ steps < MaxSteps
        /\ Returns(update_session_data_on(store, sid,
                                          SMEndPhaseData(phase, clock),
                                          answered),
                   Call("sm_end_phase",
                        [session_id |-> sid, phase |-> phase,
                         ret |-> update_session_data_on(
                                     store, sid, SMEndPhaseData(phase, clock),
                                     answered).ret]))
        /\ steps' = steps + 1
        /\ clock' = clock + 1
        /\ UNCHANGED <<pytest_loaded, concurrent>>

EndSessionStore ==
    \E sid \in SessionIds, x \in ExitTypes, r \in Reasons,
       up \in StoreAnswers :
        LET out == end_session(store, sid, x, r, clock, up)
        IN  /\ steps < MaxSteps
            /\ Returns(out, Call("end_session",
                                 [session_id |-> sid, exit_type |-> x,
                                  reason |-> r, ret |-> out.ret]))
            /\ steps' = steps + 1
            /\ clock' = clock + 2
            /\ UNCHANGED <<pytest_loaded, concurrent>>

\* faulty variant: every stored session is returned
get_active_sessions_all(st) == DOMAIN st

\* SessionManager.get_active_sessions: the identifiers that key the result
\* of find({"end_time": None})
get_active_sessions(st) == {sid \in DOMAIN st : st[sid].end_time = None}

\* get_active_sessions has no try/except: when the store does not answer,
\* the driver's exception reaches the caller
GetActiveSessionsStore ==
    /\ \E answered \in BOOLEAN :
        last' = Call("get_active_sessions",
                     [raised |-> ~answered,
                      result |-> IF answered
                                 THEN [returned |-> "dict",
                                       ids |-> get_active_sessions(store)]
                                 ELSE [returned |-> "None"]])
    /\ UNCHANGED <<store, clock, pytest_loaded, steps, concurrent>>

\* the lifecycle over a store that may fail any call
NextStore ==
    \/ CreateSession
    \/ SMStartPhaseStore
    \/ SMEndPhaseStore
    \/ EndSessionStore
    \/ GetActiveSessionsStore

SpecStore == Init /\ [][NextStore]_vars

\* the operations that write to the session document
MutatingOps ==
    {"update_session_data", "sm_start_phase", "sm_end_phase",
     "pm_start_phase", "pm_end_phase", "next_phase", "add_response",
     "update_metrics", "end_session"}

\* C13: whenever a mutating operation returns False, the stored session is
\* identical to its state before the call, also when a store call fails
\* part-way through end_session.
C13_FalseMeansUnchanged ==
    [][(last'.op \in MutatingOps /\ last'.ret = FALSE) => store' = store]_vars

-----------------------------------------------------------------------------
(* update_metrics calls that run concurrently: a call is two steps, the    *)
(* read of the session (get_session_data, from which the overall score is  *)
(* computed) and the write of the $set built from it                       *)

RacePayloads ==
    {[technical_score |-> 400], [behavioral_score |-> 300],
     [cultural_score |-> 300]}

\* update_metrics up to and including its read: metric_updates is built
\* (the id is one create_session has returned)
BeginUpdateMetrics ==
    \E c \in Callers, sid \in DOMAIN store, metrics \in RacePayloads :
        /\ inflight[c].pc = "idle"
        /\ inflight' =
             [inflight EXCEPT ![c] =
                 [pc |-> "write", session_id |-> sid,
                  keys |-> DOMAIN metrics,
                  metric_updates |-> MetricUpdates(store, sid, metrics)]]
        /\ overlapped' =
             (overlapped \/ \E d \in Callers \ {c} : inflight[d].pc = "write")
        /\ last' = Call("update_metrics_read",
                        [session_id |-> sid, keys |-> DOMAIN metrics])
        /\ UNCHANGED <<store, clock, pytest_loaded, steps>>

\* the rest of update_metrics: the update_one and the returned value
FinishUpdateMetrics ==
    \E c \in Callers :
        /\ inflight[c].pc = "write"
        /\ LET call == inflight[c]
               out == IF call.metric_updates # <<>>
                      THEN update_session_data(store, call.session_id,
                                               call.metric_updates)
                      ELSE Outcome(store, TRUE)
           IN  /\ store' = out.store
               /\ last' = Call("update_metrics",
                               [session_id |-> call.session_id,
                                keys |-> call.keys, ret |-> out.ret])
        /\ inflight' = [inflight EXCEPT ![c] = Idle]
        /\ UNCHANGED <<overlapped, clock, pytest_loaded, steps>>

NextRace ==
    \/ CreateSession
    \/ BeginUpdateMetrics
    \/ FinishUpdateMetrics

SpecRace == Init /\ [][NextRace]_vars

\* overall_score is the weighted sum of the stored core scores
OverallConsistent(doc) ==
    10 * doc.metrics.overall_score
      = 5 * doc.metrics.technical_score + 3 * doc.metrics.behavioral_score
        + 2 * doc.metrics.cultural_score

\* C14: as long as the update_metrics calls on a session have run one after
\* the other (no call has read the session while another was between its
\* read and its write), the stored overall_score is the weighted sum of the
\* stored core scores; two calls interleaved at their read and write steps,
\* each supplying a different core score, reach a final state in which it
\* is not (the state C14_Witness describes).
C14_SequentialCallsConsistent ==
    ~overlapped => \A sid \in Sessions : OverallConsistent(store[sid])

\* C14 witness: both calls have returned, one supplied technical_score and
\* the other behavioral_score, both scores are stored, and overall_score is
\* the stale value computed without the technical score.
C14_Witness ==
    /\ overlapped
    /\ \A c \in Callers : inflight[c].pc = "idle"
    /\ Answered("update_metrics")
    /\ last.ret = TRUE
    /\ store[last.session_id].metrics.technical_score = 400
    /\ store[last.session_id].metrics.behavioral_score = 300
    /\ store[last.session_id].metrics.cultural_score = 0
    /\ store[last.session_id].metrics.overall_score = 90
    /\ ~OverallConsistent(store[last.session_id])

-----------------------------------------------------------------------------
(* Properties of session creation *)

\* C15: immediately after create_session the new session has current_phase
\* pre_interview, each of the five phases in status pending, each of the ten
\* agents inactive, every metric, overall_score included, equal to 0.0, no
\* end_time and completion_status pending.
C15_StateAfterCreate ==
    Answered("create_session")
    => LET doc == store[last.session_id]
       IN  /\ doc.current_phase = "pre_interview"
           /\ DOMAIN doc.phases = PhaseNames
           /\ Cardinality(DOMAIN doc.phases) = 5
           /\ \A p \in DOMAIN doc.phases : doc.phases[p].status = "pending"
           /\ Cardinality(DOMAIN doc.agents) = 10
           /\ \A a \in DOMAIN doc.agents : doc.agents[a].status = "inactive"
           /\ CoreKeys \cup RealtimeKeys \cup {"overall_score"}
                = DOMAIN doc.metrics
           /\ \A k \in DOMAIN doc.metrics : doc.metrics[k] = 0
           /\ doc.end_time = None
           /\ doc.exit_criteria.completion_status = "pending"

\* C15 witness: create_session has just returned the id of a stored session.
C15_Witness ==
    /\ Answered("create_session")
    /\ last.ret = TRUE
    /\ store[last.session_id].candidate_id = "test_candidate"
    /\ store[last.session_id].start_time = 1
    /\ clock = 2

-----------------------------------------------------------------------------
(* InterviewPipeline: the orchestrator's entry points *)

\* faulty variant: the introduction phase is started
FirstPhaseData_Started(now) == SMStartPhaseData("introduction", now)

\* the update create_interview_session makes after create_session
FirstPhaseData(now) == << << <<"current_phase">>, "introduction" >> >>

create_interview_session(st, session_id, candidate_id, now) ==
    update_session_data((session_id :> NewSessionDoc(candidate_id, now)) @@ st,
                        session_id, FirstPhaseData(now))

CreateInterviewSession ==
    \E sid \in SessionIds \ DOMAIN store, c \in CandidateIds :
        /\ Returns(create_interview_session(store, sid, c, clock),
                   Call("create_interview_session",
                        [session_id |-> sid, ret |-> TRUE]))
        /\ clock' = clock + 1
        /\ UNCHANGED <<pytest_loaded, steps, concurrent>>

\* end_interview_session: end_session with its default arguments
EndInterviewSession ==
    \E sid \in SessionIds :
        LET out == end_session(store, sid, "normal", "", clock, AllAnswered)
        IN  /\ steps < MaxSteps
            /\ Returns(out, Call("end_session",
                                 [session_id |-> sid, exit_type |-> "normal",
                                  ret |-> out.ret]))
            /\ steps' = steps + 1
            /\ clock' = clock + 2
            /\ UNCHANGED <<pytest_loaded, concurrent>>

\* a session driven through the orchestrator and the context stage
NextPipeline ==
    \/ CreateInterviewSession
    \/ NextPhaseRequest
    \/ SMStartPhase
    \/ SMEndPhase
    \/ EndInterviewSession

SpecPipeline == Init /\ [][NextPipeline]_vars

\* C16: a session created through the orchestrator's
\* create_interview_session has current_phase introduction while every
\* phase, introduction included, still has status pending and no start time.
C16_CreatedAtIntroduction ==
    Answered("create_interview_session")
    => LET doc == store[last.session_id]
       IN  /\ doc.current_phase = "introduction"
           /\ \A p \in PhaseNames :
                  /\ doc.phases[p].status = "pending"
                  /\ doc.phases[p].start_time = None

\* C16 witness: create_interview_session has just returned; introduction is
\* the current phase and has not been started.
C16_Witness ==
    /\ Answered("create_interview_session")
    /\ store[last.session_id].current_phase = "introduction"
    /\ store[last.session_id].phases["introduction"].status = "pending"
    /\ store[last.session_id].candidate_id = "test_candidate"

\* C17: in every reachable state in which some phase is active,
\* current_phase names that active phase.
C17_CurrentPhaseIsActive ==
    \A sid \in Sessions :
        \A p \in PhasesIn(store[sid], "active") :
            store[sid].current_phase = p

-----------------------------------------------------------------------------
(* The normal completion flow of test_normal_completion: the five phases   *)
(* started and ended in sequence order through the Phase Manager, the      *)
(* response quality updated in between, then end_session with its default  *)
(* arguments.  steps is the number of Phase Manager calls made so far.     *)

QualityScores == {800, 900}

\* start_phase and end_phase calls of the flow, and the calls in all
FlowPhaseCalls == 2 * Len(PHASE_SEQUENCE)
FlowCalls == FlowPhaseCalls + 1

\* the phase the flow is at after the given number of calls
FlowPhase(done) == PHASE_SEQUENCE[(done \div 2) + 1]

FlowStartPhase ==
    \E sid \in DOMAIN store :
        LET phase == FlowPhase(steps)
            out == PM_start_phase(store, sid, phase, clock, pytest_loaded)
        IN  /\ steps < FlowPhaseCalls
            /\ steps % 2 = 0
            /\ Returns(out, Call("pm_start_phase",
                                 [session_id |-> sid, phase |-> phase,
                                  ret |-> out.ret]))
            /\ steps' = steps + 1
            /\ clock' = clock + 1
            /\ UNCHANGED <<pytest_loaded, concurrent>>

FlowEndPhase ==
    \E sid \in DOMAIN store :
        LET phase == FlowPhase(steps)
            out == PM_end_phase(store, sid, phase, clock)
        IN  /\ steps < FlowPhaseCalls
            /\ steps % 2 = 1
            /\ Returns(out, Call("pm_end_phase",
                                 [session_id |-> sid, phase |-> phase,
                                  ret |-> out.ret]))
            /\ steps' = steps + 1
            /\ clock' = clock + 1
            /\ UNCHANGED <<pytest_loaded, concurrent>>

\* MetricsManager.update_response_quality: update_metrics with
\* response_quality and response_quality_<phase>
update_response_quality(st, session_id, phase, quality_score) ==
    update_metrics(st, session_id,
                   ("response_quality" :> quality_score)
                   @@ (("response_quality_" \o phase) :> quality_score),
                   "")

FlowResponseQuality ==
    \E sid \in DOMAIN store, q \in QualityScores :
        LET out == update_response_quality(store, sid, FlowPhase(steps), q)
        IN  /\ steps < FlowPhaseCalls
            /\ steps % 2 = 1
            /\ Returns(out, Call("update_metrics",
                                 [session_id |-> sid,
                                  keys |-> {"response_quality"},
                                  ret |-> out.ret]))
            /\ UNCHANGED <<clock, pytest_loaded, steps, concurrent>>

\* the final update_metrics of the flow: the three core scores
FlowFinalMetrics ==
    \E sid \in DOMAIN store, v \in QualityScores :
        LET metrics == [technical_score |-> v, behavioral_score |-> v,
                        cultural_score |-> v]
            out == update_metrics(store, sid, metrics, "")
        IN  /\ steps = FlowPhaseCalls
            /\ Returns(out, Call("update_metrics",
                                 [session_id |-> sid, keys |-> DOMAIN metrics,
                                  ret |-> out.ret]))
            /\ UNCHANGED <<clock, pytest_loaded, steps, concurrent>>

FlowEndSession ==
    \E sid \in DOMAIN store :
        LET out == end_session(store, sid, "normal", "", clock, AllAnswered)
        IN  /\ steps = FlowPhaseCalls
            /\ Returns(out, Call("end_session",
                                 [session_id |-> sid, exit_type |-> "normal",
                                  ret |-> out.ret]))
            /\ steps' = steps + 1
            /\ clock' = clock + 2
            /\ UNCHANGED <<pytest_loaded, concurrent>>

NextFlow ==
    \/ CreateSession
    \/ FlowStartPhase
    \/ FlowResponseQuality
    \/ FlowEndPhase
    \/ FlowFinalMetrics
    \/ CheckExitCriteria
    \/ FlowEndSession

SpecFlow == Init /\ [][NextFlow]_vars

\* C18: starting and ending the five phases in sequence order through the
\* Phase Manager succeeds at every step (each start_phase and each end_phase
\* returns True, the started phase is active, the ended phase is completed),
\* and end_session called afterwards with default arguments returns True and
\* records exit_type normal, completion_status completed and an end_time,
\* with every phase completed.
C18_NormalCompletion ==
    \A sid \in Sessions :
        LET doc == store[sid]
        IN  /\ Answered("pm_start_phase")
                 => /\ last.ret = TRUE
                    /\ doc.phases[last.phase].status = "active"
            /\ Answered("pm_end_phase")
                 => /\ last.ret = TRUE
                    /\ doc.phases[last.phase].status = "completed"
            /\ \A i \in 1..Len(PHASE_SEQUENCE) :
                   2 * i <= steps
                   => doc.phases[PHASE_SEQUENCE[i]].status = "completed"
            /\ Answered("end_session") => last.ret = TRUE
            /\ steps = FlowCalls
                 => /\ doc.exit_criteria.exit_type = "normal"
                    /\ doc.exit_criteria.completion_status = "completed"
                    /\ doc.end_time # None

\* C18 witness: with the ordering check in force, the whole flow has run:
\* wrap_up was started after behavioral was completed, and the session has
\* been ended.
C18_Witness ==
    /\ ~pytest_loaded
    /\ steps = FlowCalls
    /\ Answered("end_session")
    /\ last.ret = TRUE
    /\ \A p \in PhaseNames :
           /\ store[last.session_id].phases[p].status = "completed"
           /\ store[last.session_id].phases[p].start_time # None
           /\ store[last.session_id].phases[p].end_time # None
    /\ store[last.session_id].exit_criteria.exit_type = "normal"
    /\ store[last.session_id].metrics.response_quality = 900

-----------------------------------------------------------------------------
(* Exit criteria of a session with passing scores *)

\* 0.8, the least passing score, and 0.9, the score of the tests
PassingValues == {800, 900}

\* payloads made of passing core scores
PassingPayloads ==
    {t @@ b @@ c :
        t \in {EmptyDoc} \cup {[technical_score |-> v] : v \in PassingValues},
        b \in {EmptyDoc} \cup {[behavioral_score |-> v] : v \in PassingValues},
        c \in {EmptyDoc} \cup {[cultural_score |-> v] : v \in PassingValues}}

UpdatePassingMetrics ==
    /\ \E sid \in SessionIds, metrics \in PassingPayloads :
        LET out == update_metrics(store, sid, metrics, "")
        IN  Returns(out, Call("update_metrics",
                         [session_id |-> sid, keys |-> DOMAIN metrics,
                          ret |-> out.ret]))
    /\ UNCHANGED <<clock, pytest_loaded, steps, concurrent>>

NextPassing ==
    \/ CreateSession
    \/ UpdatePassingMetrics
    \/ CheckExitCriteria
    \/ UpdateCurrentPhase
    \/ UpdateWorkAuthorization

SpecPassing == Init /\ [][NextPassing]_vars

\* the three core scores are each at least 0.8
PassingScores(doc) ==
    /\ doc.metrics.technical_score >= 800
    /\ doc.metrics.behavioral_score >= 800
    /\ doc.metrics.cultural_score >= 800

\* C19, as claimed: when technical_score, behavioral_score and
\* cultural_score are each at least 0.8, check_exit_criteria returns no
\* exit, in every phase.
C19_PassingScoresNoExit ==
    (Answered("check_exit_criteria") /\ PassingScores(store[last.session_id]))
    => last.result.returned = "None"

\* C19, amended: when the three core scores are each at least 0.8,
\* check_exit_criteria returns no exit in every phase if work_authorization
\* is true or the process runs under pytest; outside pytest, with
\* work_authorization false (its value on a session as created), it returns
\* an immediate exit for the work authorization alone.
C19_PassingScoresAuthorized ==
    (Answered("check_exit_criteria") /\ PassingScores(store[last.session_id]))
    => IF pytest_loaded
          \/ store[last.session_id].eligibility_checks.work_authorization
       THEN last.result.returned = "None"
       ELSE /\ last.result.returned = "dict"
            /\ last.result.exit_type = "immediate"
            /\ last.result.reason = "Work authorization requirements not met"

\* C19 witness: under pytest, a session created with work_authorization
\* false and given 0.9 for the three scores is checked in the technical
\* phase and no exit is returned.
C19_Witness ==
    /\ Answered("check_exit_criteria")
    /\ pytest_loaded
    /\ ~store[last.session_id].eligibility_checks.work_authorization
    /\ store[last.session_id].current_phase = "technical"
    /\ store[last.session_id].metrics.technical_score = 900
    /\ store[last.session_id].metrics.behavioral_score = 900
    /\ store[last.session_id].metrics.cultural_score = 900
    /\ store[last.session_id].metrics.overall_score = 900
    /\ last.result.returned = "None"

-----------------------------------------------------------------------------
(* SessionManager.add_response *)

ResponsePhases == {"introduction", "technical"}
Responses == {"first answer", "second answer"}

\* faulty variant: the response replaces the array ($set for $push)
Pushed_Replaced(array, value) == <<value>>

\* $push: the value is appended to the array
Pushed(array, value) == Append(array, value)

\* the array stored at responses.<phase>; $push creates it when absent
ResponsesOf(doc, phase) ==
    IF phase \in DOMAIN doc.responses THEN doc.responses[phase] ELSE <<>>

\* update_one with $push on responses.<phase>: a matched document is always
\* modified
add_response(st, session_id, phase, response) ==
    IF session_id \in DOMAIN st
    THEN Outcome([st EXCEPT ![session_id] =
                     SetPath(@, <<"responses", phase>>,
                             Pushed(ResponsesOf(@, phase), response))],
                 TRUE)
    ELSE Outcome(st, FALSE)

AddResponse ==
    \E sid \in SessionIds, phase \in ResponsePhases, response \in Responses :
        LET out == add_response(store, sid, phase, response)
        IN  /\ steps < MaxSteps
            /\ Returns(out, Call("add_response",
                                 [session_id |-> sid, phase |-> phase,
                                  response |-> response, ret |-> out.ret]))
            /\ steps' = steps + 1
            /\ UNCHANGED <<clock, pytest_loaded, concurrent>>

\* add_response mixed with the other operations of the Session Manager
NextResponses ==
    \/ CreateSession
    \/ AddResponse
    \/ SMStartPhase
    \/ SMEndPhase
    \/ EndSession

SpecResponses == Init /\ [][NextResponses]_vars

\* C20: the response sequence of every phase is append-only: a step of
\* add_response for a phase returns True and makes the phase's sequence its
\* earlier value followed by the new response, and every other step (another
\* operation, or add_response for another phase) leaves the sequence as it
\* was; so each earlier value is a prefix of every later one, and n calls in
\* a row for one phase yield exactly their n responses in call order.
C20_ResponsesAppendOnly ==
    [][\A sid \in Sessions :
           \A phase \in ResponsePhases \cup DOMAIN store[sid].responses :
               LET before == ResponsesOf(store[sid], phase)
                   after == ResponsesOf(store'[sid], phase)
               IN  IF /\ Called("add_response")
                      /\ last'.session_id = sid
                      /\ last'.phase = phase
                   THEN /\ last'.ret = TRUE
                        /\ after = Append(before, last'.response)
                   ELSE after = before]_vars

\* C20 witness: three add_response calls in a row for the technical phase
\* have stored their three responses in call order.
C20_Witness ==
    /\ Answered("add_response")
    /\ last.phase = "technical"
    /\ last.response = "first answer"
    /\ last.ret = TRUE
    /\ ResponsesOf(store[last.session_id], "technical")
         = <<"first answer", "second answer", "first answer">>
    /\ ResponsesOf(store[last.session_id], "introduction") = <<>>

-----------------------------------------------------------------------------
(* Properties of end_phase *)

EndPhaseOps == {"sm_end_phase", "pm_end_phase"}

\* the document without the named fields of one phase record (and without
\* the record when nothing else is in it)
Forget(doc, phase, fields) ==
    LET others == [p \in DOMAIN doc.phases \ {phase} |-> doc.phases[p]]
        rest == IF phase \in DOMAIN doc.phases
                THEN [f \in DOMAIN doc.phases[phase] \ fields |->
                         doc.phases[phase][f]]
                ELSE EmptyDoc
    IN  [doc EXCEPT !.phases = IF DOMAIN rest = {} THEN others
                               ELSE (phase :> rest) @@ others]

\* C21: end_phase is idempotent on the phase status: every end_phase call
\* leaves the phase completed and changes nothing outside the phase's status
\* and end time, and a second call in a row on the same phase leaves the
\* status completed and changes nothing besides that phase's end time.
C21_EndPhaseIdempotent ==
    [][(last'.op \in EndPhaseOps /\ last'.session_id \in Sessions)
        => LET sid == last'.session_id
               phase == last'.phase
               repeated == /\ last.op \in EndPhaseOps
                           /\ last.session_id = sid
                           /\ last.phase = phase
           IN  /\ StoredStatus(store'[sid], phase) = "completed"
               /\ Forget(store'[sid], phase, {"status", "end_time"})
                    = Forget(store[sid], phase, {"status", "end_time"})
               /\ repeated
                    => /\ StoredStatus(store[sid], phase) = "completed"
                       /\ Forget(store'[sid], phase, {"end_time"})
                            = Forget(store[sid], phase, {"end_time"})]_vars

\* C21 witness: end_phase was called twice in a row on technical, which is
\* completed and carries the end time of the second call.
C21_Witness ==
    /\ Answered("sm_end_phase")
    /\ last.phase = "technical"
    /\ last.ret = TRUE
    /\ steps = 2
    /\ store[last.session_id].phases["technical"].status = "completed"
    /\ store[last.session_id].phases["technical"].end_time = 3
    /\ store[last.session_id].phases["technical"].start_time = None
    /\ \A p \in PhaseNames \ {"technical"} :
           /\ store[last.session_id].phases[p].status = "pending"
           /\ store[last.session_id].phases[p].end_time = None
    /\ store[last.session_id].current_phase = "pre_interview"
    /\ clock = 4

-----------------------------------------------------------------------------
(* AgentManager, and update_metrics called for an agent.  An action        *)
(* description is a negative integer, so that a last_action holds values   *)
(* of one type: None, a timestamp or a description.                        *)

UnknownAgent == "shadow_agent"
AgentInputs == {"consent_compliance", "technical_evaluation", UnknownAgent}
AgentActions == {-1, -2}

\* metrics payloads of an agent: no key is a session-level metric
AgentPayloads == {[accuracy |-> 900], [questions_asked |-> 3]}

ActivateAgentData(agent_name, now) ==
    << << <<"agents", agent_name, "status">>, "active" >>,
       << <<"agents", agent_name, "last_action">>, now >> >>

activate_agent(st, session_id, agent_name, now) ==
    update_session_data(st, session_id, ActivateAgentData(agent_name, now))

\* faulty variant: the time is written, the status is left as it was
DeactivateAgentData_TimeOnly(agent_name, now) ==
    << << <<"agents", agent_name, "last_action">>, now >> >>

DeactivateAgentData(agent_name, now) ==
    << << <<"agents", agent_name, "status">>, "inactive" >>,
       << <<"agents", agent_name, "last_action">>, now >> >>

deactivate_agent(st, session_id, agent_name, now) ==
    update_session_data(st, session_id, DeactivateAgentData(agent_name, now))

update_agent_metrics(st, session_id, agent_name, metrics) ==
    update_session_data(st, session_id,
                        << << <<"agents", agent_name, "metrics">>,
                              metrics >> >>)

record_agent_action(st, session_id, agent_name, action, now) ==
    update_session_data(st, session_id,
        << << <<"agents", agent_name, "last_action">>, action >>,
           << <<"agents", agent_name, "last_action_time">>, now >> >>)

\* agent_data.get("status") == "active", over session_data["agents"]; the
\* empty list for a missing session or a session without agents
get_active_agents(st, session_id) ==
    IF session_id \notin DOMAIN st \/ "agents" \notin DOMAIN st[session_id]
    THEN {}
    ELSE {a \in DOMAIN st[session_id].agents :
             Get(st[session_id].agents[a], "status", "None") = "active"}

ActivateAgent ==
    \E sid \in SessionIds, a \in AgentInputs :
        LET out == activate_agent(store, sid, a, clock)
        IN  /\ steps < MaxSteps
            /\ Returns(out, Call("activate_agent",
                                 [session_id |-> sid, agent |-> a,
                                  ret |-> out.ret]))
            /\ steps' = steps + 1
            /\ clock' = clock + 1
            /\ UNCHANGED <<pytest_loaded, concurrent>>

DeactivateAgent ==
    \E sid \in SessionIds, a \in AgentInputs :
        LET out == deactivate_agent(store, sid, a, clock)
        IN  /\ steps < MaxSteps
            /\ Returns(out, Call("deactivate_agent",
                                 [session_id |-> sid, agent |-> a,
                                  ret |-> out.ret]))
            /\ steps' = steps + 1
            /\ clock' = clock + 1
            /\ UNCHANGED <<pytest_loaded, concurrent>>

RecordAgentAction ==
    \E sid \in SessionIds, a \in AgentInputs, action \in AgentActions :
        LET out == record_agent_action(store, sid, a, action, clock)
        IN  /\ steps < MaxSteps
            /\ Returns(out, Call("record_agent_action",
                                 [session_id |-> sid, agent |-> a,
                                  ret |-> out.ret]))
            /\ steps' = steps + 1
            /\ clock' = clock + 1
            /\ UNCHANGED <<pytest_loaded, concurrent>>

UpdateAgentMetrics ==
    \E sid \in SessionIds, a \in AgentInputs, metrics \in AgentPayloads :
        LET out == update_agent_metrics(store, sid, a, metrics)
        IN  /\ steps < MaxSteps
            /\ Returns(out, Call("update_agent_metrics",
                                 [session_id |-> sid, agent |-> a,
                                  keys |-> DOMAIN metrics, ret |-> out.ret]))
            /\ steps' = steps + 1
            /\ UNCHANGED <<clock, pytest_loaded, concurrent>>

\* SessionManager.update_metrics with these payloads, for an agent or (agent
\* "") for the session
UpdateMetricsForAgent ==
    \E sid \in SessionIds, a \in AgentInputs \cup {""},
       metrics \in AgentPayloads :
        LET out == update_metrics(store, sid, metrics, a)
        IN  /\ steps < MaxSteps
            /\ Returns(out, Call("update_metrics",
                                 [session_id |-> sid, agent |-> a,
                                  keys |-> DOMAIN metrics, ret |-> out.ret]))
            /\ steps' = steps + 1
            /\ UNCHANGED <<clock, pytest_loaded, concurrent>>

GetActiveAgents ==
    /\ \E sid \in SessionIds :
        /\ last' = Call("get_active_agents",
                        [session_id |-> sid,
                         result |-> [returned |-> "list",
                                     agents |-> get_active_agents(store, sid)]])
        /\ store' = store
    /\ UNCHANGED <<clock, pytest_loaded, steps, concurrent>>

NextAgents ==
    \/ CreateSession
    \/ ActivateAgent
    \/ DeactivateAgent
    \/ RecordAgentAction
    \/ UpdateAgentMetrics
    \/ UpdateMetricsForAgent
    \/ GetActiveAgents

SpecAgents == Init /\ [][NextAgents]_vars

\* the operations that write to the session document, the agent operations
\* included
AllMutatingOps ==
    MutatingOps \cup {"activate_agent", "deactivate_agent",
                      "record_agent_action", "update_agent_metrics"}

\* C22: every mutating operation addressed to a session identifier that
\* does not exist in the store returns False and creates no document, also
\* update_metrics with an agent argument and with a payload that has no
\* recognised metric key.
C22_MissingSessionFalse ==
    [][(last'.op \in AllMutatingOps /\ last'.session_id \notin DOMAIN store)
        => /\ last'.ret = FALSE
           /\ store' = store]_vars

-----------------------------------------------------------------------------
(* Properties of the failure signals *)

\* C23: no operation other than create_session raises to its caller when
\* the store is unavailable: each one resolves to False, None or an empty
\* result.
C23_NoOperationRaises ==
    last.op # "create_session" => ~last.raised

\* C24: PhaseManager.start_phase with a phase name outside the fixed five
\* returns False and leaves the session unchanged: no phase record is
\* created and current_phase keeps its value.
C24_UnknownPhaseRejected ==
    [][(Called("pm_start_phase") /\ last'.phase \notin PhaseNames)
        => /\ last'.ret = FALSE
           /\ store' = store
           /\ last'.phase \in DOMAIN store'[last'.session_id].phases
                <=> last'.phase \in DOMAIN store[last'.session_id].phases
           /\ store'[last'.session_id].current_phase
                = store[last'.session_id].current_phase]_vars

\* C24 witness: start_phase of the Phase Manager was refused for a name
\* outside the sequence, on a session whose pre_interview phase is active.
C24_Witness ==
    /\ Answered("pm_start_phase")
    /\ last.phase = UnknownPhase
    /\ last.ret = FALSE
    /\ store[last.session_id].current_phase = "pre_interview"
    /\ store[last.session_id].phases["pre_interview"].status = "active"
    /\ DOMAIN store[last.session_id].phases = PhaseNames

-----------------------------------------------------------------------------
(* Two sessions in one collection *)

PairIds == {"s1", "s2"}
PairPhases == {"introduction"}
PairExitTypes == {"normal", "immediate"}
PairReasons == {"red flag"}

PairCreateSession ==
    \E sid \in PairIds \ DOMAIN store, c \in CandidateIds :
        /\ store' = (sid :> NewSessionDoc(c, clock)) @@ store
        /\ last' = Call("create_session", [session_id |-> sid, ret |-> TRUE])
        /\ clock' = clock + 1
        /\ UNCHANGED <<pytest_loaded, steps, concurrent>>

PairStartPhase ==
    \E sid \in PairIds, phase \in PairPhases :
        LET out == SM_start_phase(store, sid, phase, clock)
        IN  /\ steps < MaxSteps
            /\ Returns(out, Call("sm_start_phase",
                                 [session_id |-> sid, phase |-> phase,
                                  ret |-> out.ret]))
            /\ steps' = steps + 1
            /\ clock' = clock + 1
            /\ UNCHANGED <<pytest_loaded, concurrent>>

PairEndPhase ==
    \E sid \in PairIds, phase \in PairPhases :
        LET out == SM_end_phase(store, sid, phase, clock)
        IN  /\ steps < MaxSteps
            /\ Returns(out, Call("sm_end_phase",
                                 [session_id |-> sid, phase |-> phase,
                                  ret |-> out.ret]))
            /\ steps' = steps + 1
            /\ clock' = clock + 1
            /\ UNCHANGED <<pytest_loaded, concurrent>>

PairEndSession ==
    \E sid \in PairIds, x \in PairExitTypes, r \in PairReasons :
        LET out == end_session(store, sid, x, r, clock, AllAnswered)
        IN  /\ steps < MaxSteps
            /\ Returns(out, Call("end_session",
                                 [session_id |-> sid, exit_type |-> x,
                                  reason |-> r, ret |-> out.ret]))
            /\ steps' = steps + 1
            /\ clock' = clock + 2
            /\ UNCHANGED <<pytest_loaded, concurrent>>

PairUpdateMetrics ==
    \E sid \in PairIds, metrics \in RacePayloads :
        LET out == update_metrics(store, sid, metrics, "")
        IN  /\ steps < MaxSteps
            /\ Returns(out, Call("update_metrics",
                                 [session_id |-> sid, keys |-> DOMAIN metrics,
                                  ret |-> out.ret]))
            /\ steps' = steps + 1
            /\ UNCHANGED <<clock, pytest_loaded, concurrent>>

GetActiveSessions ==
    /\ last' = Call("get_active_sessions",
                    [result |-> [returned |-> "dict",
                                 ids |-> get_active_sessions(store)]])
    /\ UNCHANGED <<store, clock, pytest_loaded, steps, concurrent>>

NextPair ==
    \/ PairCreateSession
    \/ PairStartPhase
    \/ PairEndPhase
    \/ PairEndSession
    \/ PairUpdateMetrics
    \/ GetActiveSessions

SpecPair == InitPM /\ [][NextPair]_vars

\* the collection with the given session alone
Only(st, session_id) == [s \in DOMAIN st \cap {session_id} |-> st[s]]

\* the call recorded in last', made again on the given collection
Again(st) ==
    LET sid == last'.session_id
    IN  CASE last'.op = "sm_start_phase" ->
                 SM_start_phase(st, sid, last'.phase, clock)
          [] last'.op = "sm_end_phase" ->
                 SM_end_phase(st, sid, last'.phase, clock)
          [] last'.op = "end_session" ->
                 end_session(st, sid, last'.exit_type, last'.reason, clock,
                             AllAnswered)
          [] last'.op = "update_metrics" ->
                 update_metrics(st, sid,
                                CHOOSE m \in RacePayloads :
                                    DOMAIN m = last'.keys,
                                "")

\* C25: operations on different sessions are independent: an operation
\* addressed to a session changes no other session's document, and its
\* result and its effect on its own session are those it has on a
\* collection that holds that session alone.
C25_SessionsIndependent ==
    [][last'.op \in {"sm_start_phase", "sm_end_phase", "end_session",
                     "update_metrics"}
        => LET sid == last'.session_id
           IN  /\ \A other \in DOMAIN store \ {sid} :
                      store'[other] = store[other]
               /\ DOMAIN store' = DOMAIN store
               /\ last'.ret = Again(Only(store, sid)).ret
               /\ Only(store', sid) = Again(Only(store, sid)).store]_vars

\* C25 witness: with both sessions stored, s1 has been ended with an
\* immediate exit while s2, whose introduction phase is active, is as the
\* calls addressed to it left it.
C25_Witness ==
    /\ DOMAIN store = PairIds
    /\ last.op = "end_session"
    /\ last.session_id = "s1"
    /\ last.exit_type = "immediate"
    /\ last.ret = TRUE
    /\ store["s1"].end_time # None
    /\ store["s1"].phases["introduction"].status = "skipped"
    /\ store["s2"].end_time = None
    /\ store["s2"].current_phase = "introduction"
    /\ store["s2"].phases["introduction"].status = "active"
    /\ store["s2"].metrics.technical_score = 400

\* C26: get_active_sessions returns exactly the sessions whose end_time is
\* absent, keyed by identifier: a session is in the result from its
\* creation until an end_session call on it succeeds, and never afterwards.
C26_ActiveUntilEnded ==
    [][/\ \A sid \in DOMAIN store' :
              LET ended == /\ last'.op = "end_session"
                           /\ last'.session_id = sid
                           /\ last'.ret = TRUE
              IN  sid \in get_active_sessions(store')
                  <=> /\ sid \in DOMAIN store => sid \in get_active_sessions(store)
                      /\ ~ended
       /\ last'.op = "get_active_sessions"
            => /\ last'.result.returned = "dict"
               /\ last'.result.ids
                    = {sid \in DOMAIN store : store[sid].end_time = None}]_vars

\* C26 witness: of two stored sessions, the ended one is missing from the
\* result of get_active_sessions and the other one is in it.
C26_Witness ==
    /\ DOMAIN store = PairIds
    /\ last.op = "get_active_sessions"
    /\ last.result.returned = "dict"
    /\ last.result.ids = {"s2"}
    /\ store["s1"].end_time # None
    /\ store["s1"].exit_criteria.completion_status = "completed"
    /\ store["s2"].end_time = None

-----------------------------------------------------------------------------
(* Properties of the agent registry *)

\* agents.<a>.status as stored, "None" when the record or the field is absent
AgentStatus(doc, a) ==
    IF a \in DOMAIN doc.agents THEN Get(doc.agents[a], "status", "None")
    ELSE "None"

\* C27: get_active_agents returns exactly the agents whose status is
\* active: an agent is in the result after activate_agent and until the next
\* deactivate_agent on it, and record_agent_action, update_agent_metrics and
\* update_metrics with an agent argument change no agent's status and no
\* session-level metric.
C27_ActiveAgents ==
    [][\A sid \in Sessions :
           /\ \A a \in AgentInputs \cup DOMAIN store[sid].agents :
                  LET addressed == last'.session_id = sid /\ last'.agent = a
                  IN  a \in get_active_agents(store', sid)
                      <=> IF last'.op = "activate_agent" /\ addressed
                          THEN TRUE
                          ELSE IF last'.op = "deactivate_agent" /\ addressed
                          THEN FALSE
                          ELSE a \in get_active_agents(store, sid)
           /\ last'.op \in {"record_agent_action", "update_agent_metrics",
                            "update_metrics"}
                => /\ \A a \in AgentInputs \cup DOMAIN store[sid].agents :
                          AgentStatus(store'[sid], a)
                            = AgentStatus(store[sid], a)
                   /\ store'[sid].metrics = store[sid].metrics
           /\ (last'.op = "get_active_agents" /\ last'.session_id = sid)
                => last'.result.agents
                     = {a \in DOMAIN store[sid].agents :
                           AgentStatus(store[sid], a) = "active"}]_vars

\* C27 witness: consent_compliance was activated and an action of it was
\* recorded, technical_evaluation was deactivated, and get_active_agents
\* returns consent_compliance alone.
C27_Witness ==
    /\ Answered("get_active_agents")
    /\ last.result.agents = {"consent_compliance"}
    /\ store[last.session_id].agents["consent_compliance"].last_action
         \in AgentActions
    /\ store[last.session_id].agents["technical_evaluation"].status
         = "inactive"
    /\ store[last.session_id].agents["technical_evaluation"].last_action
         # None

-----------------------------------------------------------------------------
(* Properties of ending a session in an inconsistent state *)

\* C28: end_session on a session whose current_phase names a phase that has
\* no phase record skips the phase-completion step, returns True and sets
\* end_time, exit_type and completion_status.
C28_MissingPhaseRecordTolerated ==
    [][(Called("end_session")
            /\ store[last'.session_id].current_phase
                 \notin DOMAIN store[last'.session_id].phases)
        => LET after == store'[last'.session_id]
           IN  /\ last'.ret = TRUE
               /\ after.end_time # None
               /\ "exit_type" \in DOMAIN after.exit_criteria
               /\ after.exit_criteria.exit_type = last'.exit_type
               /\ after.exit_criteria.completion_status = "completed"
               /\ after.phases = store[last'.session_id].phases]_vars

-----------------------------------------------------------------------------
(* The per-turn context stage: InterviewContextManager.process *)

\* current_phase of the user stage's own InterviewContext: the dataclass
\* default, which only the assistant stage's separate context ever reassigns
UserStagePhase == "introduction"

TurnData == {"first answer"}

TurnPayloads ==
    {[technical_score |-> 50],
     [technical_score |-> 400, behavioral_score |-> 300],
     [response_quality |-> 900]}

\* the shared context map of a turn, with or without a metrics payload
TurnContexts == {EmptyDoc} \cup {[metrics |-> m] : m \in TurnPayloads}

\* _process_user_context for a transcript: add_response under the stage's
\* phase, then update_metrics when the context carries a payload; the stage
\* returns after that
process_user_context(st, session_id, data, context) ==
    LET answered == add_response(st, session_id, UserStagePhase, data).store
    IN  IF "metrics" \in DOMAIN context
        THEN update_metrics(answered, session_id, context.metrics, "").store
        ELSE answered

\* process of the user stage: on its first turn the stage creates the
\* interview session, then handles the user context
UserContextStage ==
    \E sid \in SessionIds, c \in CandidateIds, data \in TurnData,
       context \in TurnContexts :
        LET fresh == sid \notin DOMAIN store
            begun == IF fresh
                     THEN create_interview_session(store, sid, c, clock).store
                     ELSE store
        IN  /\ steps < MaxSteps
            /\ store' = process_user_context(begun, sid, data, context)
            /\ last' = Call("process_user_context",
                            [session_id |-> sid, phase |-> UserStagePhase,
                             response |-> data,
                             keys |-> IF "metrics" \in DOMAIN context
                                      THEN DOMAIN context.metrics ELSE {}])
            /\ steps' = steps + 1
            /\ clock' = IF fresh THEN clock + 1 ELSE clock
            /\ UNCHANGED <<pytest_loaded, concurrent>>

\* MetricsManager.update_response_quality for the phase and score given
UpdateResponseQuality ==
    \E sid \in SessionIds, phase \in PhaseNames, q \in QualityScores :
        LET out == update_response_quality(store, sid, phase, q)
        IN  /\ steps < MaxSteps
            /\ Returns(out, Call("update_response_quality",
                                 [session_id |-> sid, phase |-> phase,
                                  keys |-> {"response_quality",
                                            "response_quality_" \o phase},
                                  ret |-> out.ret]))
            /\ steps' = steps + 1
            /\ UNCHANGED <<clock, pytest_loaded, concurrent>>

\* a direct update_metrics call with a payload of the turn
UpdateTurnMetrics ==
    \E sid \in SessionIds, metrics \in TurnPayloads :
        LET out == update_metrics(store, sid, metrics, "")
        IN  /\ steps < MaxSteps
            /\ Returns(out, Call("update_metrics",
                                 [session_id |-> sid, keys |-> DOMAIN metrics,
                                  ret |-> out.ret]))
            /\ steps' = steps + 1
            /\ UNCHANGED <<clock, pytest_loaded, concurrent>>

\* the turns of an interview: the user stage, the Metrics Manager, direct
\* metric updates, the assistant stage's phase request, and the exit check
\* available to whoever calls it
NextTurn ==
    \/ CreateInterviewSession
    \/ UserContextStage
    \/ UpdateResponseQuality
    \/ UpdateTurnMetrics
    \/ NextPhaseRequest
    \/ CheckExitCriteria
    \/ EndInterviewSession

SpecTurn == Init /\ [][NextTurn]_vars

\* the operations that carry a session-level metrics update
SessionMetricsOps ==
    {"update_metrics", "process_user_context", "update_response_quality"}

\* C29: every session-level metrics update is followed by an exit-criteria
\* evaluation before the session's next operation: when the last operation
\* on an existing session was update_metrics (called directly, through the
\* Metrics Manager or by the user context stage with a metrics payload), the
\* next operation addressed to that session is check_exit_criteria.
C29_ExitCheckFollowsMetricsUpdate ==
    [][(/\ last.op \in SessionMetricsOps
        /\ last.agent = ""
        /\ last.keys # {}
        /\ last.session_id \in Sessions
        /\ last'.session_id = last.session_id)
       => last'.op = "check_exit_criteria"]_vars

-----------------------------------------------------------------------------
(* MetricsManager: the phase breakdowns and get_phase_metrics *)

\* str.endswith
EndsWith(key, suffix) ==
    /\ Len(key) >= Len(suffix)
    /\ SubSeq(key, Len(key) - Len(suffix) + 1, Len(key)) = suffix

\* time_metrics dictionaries, with and without an overall entry
TimeMetrics == {[overall |-> 700, elapsed |-> 240], [elapsed |-> 300]}

\* MetricsManager.update_time_management: update_metrics with
\* time_management (the overall entry, 0.0 when absent) and
\* time_management_<phase> (the whole dictionary)
update_time_management(st, session_id, phase, time_metrics) ==
    update_metrics(st, session_id,
                   ("time_management" :> Get(time_metrics, "overall", 0))
                   @@ (("time_management_" \o phase) :> time_metrics),
                   "")

\* MetricsManager.get_phase_metrics: None for a missing session; otherwise a
\* dictionary, empty for a name without a phase record, else the status, the
\* duration when both times are set, and every stored metric whose key ends
\* with _<phase>. A record without a status reads as "None".
get_phase_metrics(st, session_id, phase) ==
    IF session_id \notin DOMAIN st
    THEN ReturnsNone
    ELSE LET session_data == st[session_id]
         IN  IF phase \notin DOMAIN session_data.phases
             THEN [returned |-> "dict", metrics |-> EmptyDoc]
             ELSE LET phase_data == session_data.phases[phase]
                      start == Get(phase_data, "start_time", None)
                      end == Get(phase_data, "end_time", None)
                      qualified == {key \in DOMAIN session_data.metrics :
                                       EndsWith(key, "_" \o phase)}
                  IN  [returned |-> "dict",
                       metrics |->
                           [key \in qualified |-> session_data.metrics[key]]
                           @@ [status |-> Get(phase_data, "status", "None"),
                               duration |-> IF start # None /\ end # None
                                            THEN end - start ELSE None]]

UpdateTimeManagement ==
    \E sid \in SessionIds, phase \in PhaseNames, time_metrics \in TimeMetrics :
        LET out == update_time_management(store, sid, phase, time_metrics)
        IN  /\ steps < MaxSteps
            /\ Returns(out, Call("update_time_management",
                                 [session_id |-> sid, phase |-> phase,
                                  keys |-> {"time_management",
                                            "time_management_" \o phase},
                                  ret |-> out.ret]))
            /\ steps' = steps + 1
            /\ UNCHANGED <<clock, pytest_loaded, concurrent>>

GetPhaseMetrics ==
    /\ \E sid \in SessionIds, phase \in PhaseInputs :
        /\ last' = Call("get_phase_metrics",
                        [session_id |-> sid, phase |-> phase,
                         result |-> get_phase_metrics(store, sid, phase)])
        /\ store' = store
    /\ UNCHANGED <<clock, pytest_loaded, steps, concurrent>>

\* the Metrics Manager's breakdowns on a session whose phases start and end
NextBreakdown ==
    \/ CreateSession
    \/ SMStartPhase
    \/ SMEndPhase
    \/ UpdateResponseQuality
    \/ UpdateTimeManagement
    \/ GetPhaseMetrics

SpecBreakdown == Init /\ [][NextBreakdown]_vars

\* the metrics of the session a step's call addressed, after the step
MetricsAfter == store'[last'.session_id].metrics

\* what get_phase_metrics answers for the step's session and phase after it
PhaseMetricsAfter == get_phase_metrics(store', last'.session_id, last'.phase)

\* C30: after update_response_quality(id, phase, score) on an existing
\* session the metrics hold response_quality = score and
\* response_quality_<phase> = score, and get_phase_metrics(id, phase) returns
\* that phase-qualified entry; likewise after update_time_management the
\* metrics hold the time_management_<phase> dictionary and get_phase_metrics
\* returns it.
C30_PhaseBreakdownStored ==
    [][/\ Called("update_response_quality")
          => \E q \in QualityScores :
                LET key == "response_quality_" \o last'.phase
                IN  /\ store' = update_response_quality(
                                    store, last'.session_id, last'.phase,
                                    q).store
                    /\ MetricsAfter.response_quality = q
                    /\ key \in DOMAIN MetricsAfter
                    /\ MetricsAfter[key] = q
                    /\ key \in DOMAIN PhaseMetricsAfter.metrics
                    /\ PhaseMetricsAfter.metrics[key] = q
       /\ Called("update_time_management")
          => \E time_metrics \in TimeMetrics :
                LET key == "time_management_" \o last'.phase
                IN  /\ store' = update_time_management(
                                    store, last'.session_id, last'.phase,
                                    time_metrics).store
                    /\ key \in DOMAIN MetricsAfter
                    /\ MetricsAfter[key] = time_metrics
                    /\ key \in DOMAIN PhaseMetricsAfter.metrics
                    /\ PhaseMetricsAfter.metrics[key] = time_metrics]_vars

-----------------------------------------------------------------------------
(* PhaseManager: check_phase_duration and get_phase_completion_status;    *)
(* one unit of the clock is one minute                                    *)

\* minutes allocated to each phase; None is the variable duration
PHASE_DURATIONS ==
    [pre_interview |-> None, introduction |-> 5, technical |-> 25,
     behavioral |-> 15, wrap_up |-> 5]

\* faulty variant: the warning starts at two minutes remaining
DurationStatus_Inclusive(remaining) ==
    IF remaining <= 2 THEN "warning" ELSE "in_progress"

\* "warning" if remaining < 2 else "in_progress"
DurationStatus(remaining) ==
    IF remaining < 2 THEN "warning" ELSE "in_progress"

\* the value check_phase_duration returns: None for a missing session, for
\* a current_phase that is empty or has no record, for a record that is not
\* active, and when reading the status or the start time raises
PhaseTiming(st, session_id, now) ==
    IF session_id \notin DOMAIN st THEN ReturnsNone
    ELSE LET session_data == st[session_id]
             current_phase == Get(session_data, "current_phase", "")
         IN  IF \/ current_phase = ""
                \/ current_phase \notin DOMAIN session_data.phases
             THEN ReturnsNone
             ELSE LET phase_data == session_data.phases[current_phase]
                  IN  IF \/ "status" \notin DOMAIN phase_data
                         \/ phase_data.status # "active"
                         \/ Get(phase_data, "start_time", None) = None
                      THEN ReturnsNone
                      ELSE LET elapsed == now - phase_data.start_time
                               allocated == Get(PHASE_DURATIONS,
                                                current_phase, None)
                           IN  IF allocated = None
                               THEN [returned |-> "dict",
                                     phase |-> current_phase,
                                     elapsed_minutes |-> elapsed,
                                     status |-> "in_progress"]
                               ELSE [returned |-> "dict",
                                     phase |-> current_phase,
                                     elapsed_minutes |-> elapsed,
                                     allocated_minutes |-> allocated,
                                     remaining_minutes |-> allocated - elapsed,
                                     status |->
                                        DurationStatus(allocated - elapsed)]

\* faulty variant: a warning ends the current phase
check_phase_duration_Enforcing(st, session_id, now) ==
    LET result == PhaseTiming(st, session_id, now)
    IN  [store |-> IF result.returned = "dict" /\ result.status = "warning"
                   THEN SM_end_phase(st, session_id, result.phase, now).store
                   ELSE st,
         result |-> result]

\* PhaseManager.check_phase_duration: the collection after the call (it
\* issues no write) and the value returned
check_phase_duration(st, session_id, now) ==
    [store |-> st, result |-> PhaseTiming(st, session_id, now)]

\* the fields of a phase record that are not booleans
NonFlagFields == {"status", "start_time", "end_time", "skip_reason"}

\* PhaseManager.get_phase_completion_status: None for a missing session or
\* a name without a record, else the boolean fields of the record
get_phase_completion_status(st, session_id, phase) ==
    IF session_id \notin DOMAIN st THEN ReturnsNone
    ELSE IF phase \notin DOMAIN st[session_id].phases THEN ReturnsNone
    ELSE LET phase_data == st[session_id].phases[phase]
         IN  [returned |-> "dict",
              completion_flags |->
                 [k \in DOMAIN phase_data \ NonFlagFields |-> phase_data[k]]]

\* SessionManager.get_session_data: the document, or None
get_session_data(st, session_id) ==
    IF session_id \in DOMAIN st
    THEN [returned |-> "dict", session_data |-> st[session_id]]
    ELSE ReturnsNone

\* minutes that pass between two calls
Delays == {1, 2, 12, 22}

\* time passes and no operation is called
PassTime ==
    /\ steps < MaxSteps
    /\ \E d \in Delays : clock' = clock + d
    /\ last' = NoCall
    /\ steps' = steps + 1
    /\ UNCHANGED <<store, pytest_loaded, concurrent>>

CheckPhaseDuration ==
    /\ \E sid \in SessionIds :
        LET out == check_phase_duration(store, sid, clock)
        IN  Returns(out, Call("check_phase_duration",
                              [session_id |-> sid, result |-> out.result]))
    /\ UNCHANGED <<clock, pytest_loaded, steps, concurrent>>

GetPhaseCompletionStatus ==
    /\ \E sid \in SessionIds, phase \in PhaseInputs :
        /\ last' = Call("get_phase_completion_status",
                        [session_id |-> sid, phase |-> phase,
                         result |-> get_phase_completion_status(store, sid,
                                                                phase)])
        /\ store' = store
    /\ UNCHANGED <<clock, pytest_loaded, steps, concurrent>>

GetSessionData ==
    /\ \E sid \in SessionIds :
        /\ last' = Call("get_session_data",
                        [session_id |-> sid,
                         result |-> get_session_data(store, sid)])
        /\ store' = store
    /\ UNCHANGED <<clock, pytest_loaded, steps, concurrent>>

\* a session whose phases start, whose agents change and whose time
\* passes, read by every read operation
NextReads ==
    \/ CreateSession
    \/ SMStartPhase
    \/ PassTime
    \/ ActivateAgent
    \/ CheckPhaseDuration
    \/ CheckExitCriteria
    \/ GetSessionData
    \/ GetActiveAgents
    \/ GetPhaseCompletionStatus
    \/ GetPhaseMetrics

SpecReads == InitPM /\ [][NextReads]_vars

ReadOps ==
    {"check_phase_duration", "check_exit_criteria", "get_session_data",
     "get_active_agents", "get_phase_completion_status", "get_phase_metrics"}

\* C31: the read operations check_phase_duration, check_exit_criteria,
\* get_session_data, get_active_agents, get_phase_completion_status and
\* get_phase_metrics never change the collection: a warning duration status
\* or a returned exit decision ends neither a phase nor the session.
C31_ReadsChangeNothing ==
    [][last'.op \in ReadOps => store' = store]_vars

\* C31 witness: check_phase_duration has just answered warning for the
\* introduction, which is still active with no end time, in a session that
\* has not ended.
C31_Witness ==
    /\ Answered("check_phase_duration")
    /\ last.result.returned = "dict"
    /\ last.result.status = "warning"
    /\ last.result.phase = "introduction"
    /\ store[last.session_id].phases["introduction"].status = "active"
    /\ store[last.session_id].phases["introduction"].end_time = None
    /\ store[last.session_id].end_time = None

\* the current phase changes, starts and ends while time passes
NextDuration ==
    \/ CreateSession
    \/ SMStartPhase
    \/ SMEndPhase
    \/ NextPhaseRequest
    \/ PassTime
    \/ CheckPhaseDuration

SpecDuration == Init /\ [][NextDuration]_vars

\* the phase a session is in, and the minutes since its recorded start
CurrentPhase(doc) == doc.current_phase
ElapsedMinutes(doc) == clock - doc.phases[CurrentPhase(doc)].start_time

\* C32: check_phase_duration returns nothing when the phase named by
\* current_phase is not active; for an active pre_interview it reports
\* in_progress with the elapsed time only; for an active introduction,
\* technical, behavioral or wrap_up phase (5, 25, 15, 5 minutes) it reports
\* warning exactly when allocated minus elapsed is below 2, also past the
\* budget, and in_progress otherwise.
C32_DurationStatus ==
    Answered("check_phase_duration")
    => LET doc == store[last.session_id]
           result == last.result
           active == StoredStatus(doc, CurrentPhase(doc)) = "active"
       IN  /\ ~active => result = ReturnsNone
           /\ (active /\ CurrentPhase(doc) = "pre_interview")
              => result = [returned |-> "dict", phase |-> "pre_interview",
                           elapsed_minutes |-> ElapsedMinutes(doc),
                           status |-> "in_progress"]
           /\ \A budget \in {<<"introduction", 5>>, <<"technical", 25>>,
                             <<"behavioral", 15>>, <<"wrap_up", 5>>} :
                (active /\ CurrentPhase(doc) = budget[1])
                => /\ result.returned = "dict"
                   /\ result.phase = budget[1]
                   /\ result.elapsed_minutes = ElapsedMinutes(doc)
                   /\ result.allocated_minutes = budget[2]
                   /\ result.remaining_minutes = budget[2] - ElapsedMinutes(doc)
                   /\ result.status =
                        IF budget[2] - ElapsedMinutes(doc) < 2
                        THEN "warning" ELSE "in_progress"

\* C32 witness: the technical phase has been active for 24 minutes and
\* check_phase_duration answered warning with one minute remaining.
C32_Witness ==
    /\ Answered("check_phase_duration")
    /\ last.result.returned = "dict"
    /\ last.result.phase = "technical"
    /\ last.result.elapsed_minutes = 24
    /\ last.result.remaining_minutes = 1
    /\ last.result.status = "warning"

-----------------------------------------------------------------------------
(* check_exit_criteria: no exit, a missing session, a store error *)

\* an identifier no session was created under
AbsentSession == "s0"

\* check_exit_criteria when the store may fail to answer the read:
\* get_session_data then returns None, and so does check_exit_criteria
check_exit_criteria_on(st, session_id, pytest, answered) ==
    IF answered THEN check_exit_criteria(st, session_id, pytest)
    ELSE ReturnsNone

\* neither an immediate flag nor, in the technical or behavioral phase, a
\* threshold failure applies to the session
NoExitWarranted(doc) ==
    /\ immediate_flags(doc, pytest_loaded) = <<>>
    /\ \/ Get(doc, "current_phase", "") \notin MidInterviewPhases
       \/ threshold_failures(doc) = <<>>

\* C33: the result of check_exit_criteria for an existing session with no
\* exit warranted differs from its result for a missing session and from
\* its result when the store fails.
C33_NoExitDistinctFromError ==
    (Answered("check_exit_criteria") /\ NoExitWarranted(store[last.session_id]))
    => /\ last.result
            # check_exit_criteria(store, AbsentSession, pytest_loaded)
       /\ last.result
            # check_exit_criteria_on(store, last.session_id, pytest_loaded,
                                     FALSE)

-----------------------------------------------------------------------------
(* SessionManager.update_phase_status *)

\* status_updates dictionaries: flags of the created records and a flag no
\* record has
StatusUpdates ==
    {[room_created |-> TRUE],
     [consent_obtained |-> TRUE, background_verified |-> TRUE],
     [system_design_complete |-> TRUE],
     [extra_check |-> TRUE]}

\* faulty variant: the phase record is replaced by the updates
PhaseStatusData_WholeRecord(phase, status_updates) ==
    << << <<"phases", phase>>, status_updates >> >>

\* {f"phases.{phase}.{key}": value for key, value in status_updates.items()}
RECURSIVE PhaseStatusData(_, _)
PhaseStatusData(phase, status_updates) ==
    IF DOMAIN status_updates = {} THEN <<>>
    ELSE LET key == CHOOSE x \in DOMAIN status_updates : TRUE
         IN  << << <<"phases", phase, key>>, status_updates[key] >> >>
             \o PhaseStatusData(phase,
                    [x \in DOMAIN status_updates \ {key} |->
                        status_updates[x]])

update_phase_status(st, session_id, phase, status_updates) ==
    update_session_data(st, session_id,
                        PhaseStatusData(phase, status_updates))

UpdatePhaseStatus ==
    \E sid \in SessionIds, phase \in PhaseInputs,
       status_updates \in StatusUpdates :
        LET out == update_phase_status(store, sid, phase, status_updates)
        IN  /\ steps < MaxSteps
            /\ Returns(out, Call("update_phase_status",
                                 [session_id |-> sid, phase |-> phase,
                                  keys |-> DOMAIN status_updates,
                                  ret |-> out.ret]))
            /\ steps' = steps + 1
            /\ UNCHANGED <<clock, pytest_loaded, concurrent>>

\* the phase primitives on a session whose agents, scores and responses are
\* filled in
NextFrame ==
    \/ CreateSession
    \/ SMStartPhase
    \/ SMEndPhase
    \/ UpdatePhaseStatus
    \/ ActivateAgent
    \/ UpdateTurnMetrics
    \/ AddResponse

SpecFrame == InitPM /\ [][NextFrame]_vars

\* the document with current_phase blanked
WithoutCurrentPhase(doc) == [doc EXCEPT !.current_phase = ""]

\* the session a step's call addressed, before and after the step
DocBefore == store[last'.session_id]
DocAfter == store'[last'.session_id]

\* C34: start_phase on p changes only p's status, p's start time and
\* current_phase; end_phase on p changes only p's status and end time and
\* keeps current_phase; update_phase_status changes only the named flags of
\* p. Every other phase record, p's other fields, the agents, metrics,
\* responses, eligibility checks and exit criteria are as before.
C34_PhasePrimitivesFrame ==
    [][/\ Called("sm_start_phase")
          => WithoutCurrentPhase(
                 Forget(DocAfter, last'.phase, {"status", "start_time"}))
             = WithoutCurrentPhase(
                 Forget(DocBefore, last'.phase, {"status", "start_time"}))
       /\ Called("sm_end_phase")
          => Forget(DocAfter, last'.phase, {"status", "end_time"})
             = Forget(DocBefore, last'.phase, {"status", "end_time"})
       /\ Called("update_phase_status")
          => Forget(DocAfter, last'.phase, last'.keys)
             = Forget(DocBefore, last'.phase, last'.keys)]_vars

\* C34 witness: update_phase_status has set consent_obtained and
\* background_verified on the introduction, which is still active with its
\* start time, while an agent is active.
C34_Witness ==
    /\ Answered("update_phase_status")
    /\ last.ret = TRUE
    /\ last.phase = "introduction"
    /\ LET doc == store[last.session_id]
       IN  /\ doc.phases["introduction"].consent_obtained
           /\ doc.phases["introduction"].background_verified
           /\ doc.phases["introduction"].status = "active"
           /\ doc.phases["introduction"].start_time # None
           /\ doc.current_phase = "introduction"
           /\ \E a \in AgentNames : doc.agents[a].status = "active"

-----------------------------------------------------------------------------
(* The phases of an ended session *)

\* C35: after any successful end_session call no phase of the session has
\* status active, whatever start_phase, end_phase and current_phase changes
\* came before it.
C35_NoActivePhaseAfterEnd ==
    [][(Called("end_session") /\ last'.ret = TRUE)
        => PhasesIn(store'[last'.session_id], "active") = {}]_vars

-----------------------------------------------------------------------------
(* The direction of a phase's status under the Phase Manager *)

StartedStatuses == {"active", "completed", "skipped"}

\* C36: through the Phase Manager a phase's status only moves forward: a
\* phase that is completed or skipped does not become active again, and
\* PhaseManager.start_phase on a phase that is already active, completed or
\* skipped returns False and leaves its start time as it was.
C36_StatusMovesForward ==
    [][/\ \A sid \in Sessions, p \in PhaseNames :
            StoredStatus(store[sid], p) \in {"completed", "skipped"}
            => StoredStatus(store'[sid], p) # "active"
       /\ (/\ Called("pm_start_phase")
           /\ StoredStatus(DocBefore, last'.phase) \in StartedStatuses)
          => /\ last'.ret = FALSE
             /\ DocAfter.phases[last'.phase].start_time
                  = DocBefore.phases[last'.phase].start_time]_vars

-----------------------------------------------------------------------------
(* Ending a phase that was never started *)

\* the Phase Manager and the read of a phase's completion, outside pytest
NextUnlock ==
    \/ CreateSession
    \/ PMStartPhase
    \/ PMEndPhase
    \/ GetPhaseCompletionStatus
    \/ GetPhaseMetrics

SpecUnlock == InitPM /\ [][NextUnlock]_vars

\* the start time recorded for a phase, None when there is none
StartTime(doc, phase) ==
    IF phase \in DOMAIN doc.phases
    THEN Get(doc.phases[phase], "start_time", None)
    ELSE None

\* C37, as claimed: in every reachable state a phase with status completed
\* has a recorded start time: end_phase on a phase that was never started
\* does not mark it completed.
C37_CompletedWasStarted ==
    \A sid \in Sessions, p \in PhaseNames :
        StoredStatus(store[sid], p) = "completed"
        => StartTime(store[sid], p) # None

\* C37, amended: end_phase has no precondition: on an existing session it
\* marks the phase completed and records the end time whatever the status
\* was, pending included, and leaves the start time as it was; a completed
\* phase therefore has a recorded start time exactly when it was started
\* before, and start_phase of the successor is admitted on the stored
\* status completed alone.
C37_EndPhaseUnconditional ==
    [][/\ Called("pm_end_phase")
          => /\ last'.ret = TRUE
             /\ StoredStatus(DocAfter, last'.phase) = "completed"
             /\ DocAfter.phases[last'.phase].end_time = clock
             /\ StartTime(DocAfter, last'.phase)
                  = StartTime(DocBefore, last'.phase)
       /\ (/\ Called("pm_start_phase")
           /\ last'.phase \in PhaseNames
           /\ IndexOf(last'.phase) > 1)
          => last'.ret
               = (StoredStatus(DocBefore,
                               PHASE_SEQUENCE[IndexOf(last'.phase) - 1])
                    = "completed")]_vars

\* C37 witness: pre_interview was ended while pending, so it is completed
\* with no start time, and the Phase Manager then started the introduction.
C37_Witness ==
    /\ Answered("pm_start_phase")
    /\ last.phase = "introduction"
    /\ last.ret = TRUE
    /\ StoredStatus(store[last.session_id], "pre_interview") = "completed"
    /\ StartTime(store[last.session_id], "pre_interview") = None
    /\ store[last.session_id].phases["pre_interview"].end_time # None
    /\ StoredStatus(store[last.session_id], "introduction") = "active"

-----------------------------------------------------------------------------
(* The exit decision on a session without scores *)

\* the three core scores are as create_session wrote them
NoCoreScore(doc) ==
    /\ doc.metrics.technical_score = 0
    /\ doc.metrics.behavioral_score = 0
    /\ doc.metrics.cultural_score = 0

\* C38: for a session on which no core score has been recorded,
\* check_exit_criteria returns exit_type immediate in every phase, naming
\* the behavioral and the technical flag (after the work authorization flag
\* when that one applies): the initial scores 0.0 are below the immediate
\* thresholds.
C38_ImmediateBeforeEvaluation ==
    (Answered("check_exit_criteria") /\ NoCoreScore(store[last.session_id]))
    => /\ last.result.returned = "dict"
       /\ last.result.exit_type = "immediate"
       /\ last.result.reason
            = (IF ~pytest_loaded
                  /\ ~store[last.session_id].eligibility_checks
                                            .work_authorization
               THEN "Work authorization requirements not met; "
               ELSE "")
              \o "Critical behavioral concerns identified; "
              \o "Fundamental technical capability issues"

\* C38 witness: under pytest a session just created, still in pre_interview
\* and with every score 0, is checked and an immediate exit is returned.
C38_Witness ==
    /\ Answered("check_exit_criteria")
    /\ pytest_loaded
    /\ store[last.session_id].current_phase = "pre_interview"
    /\ store[last.session_id].metrics = InitialMetrics
    /\ last.result.returned = "dict"
    /\ last.result.exit_type = "immediate"

-----------------------------------------------------------------------------
(* The end of a session: end_time, completion_status and exit_type *)

\* the Session Manager's operations on one session
NextLifecycle ==
    \/ CreateSession
    \/ SMStartPhase
    \/ SMEndPhase
    \/ AddResponse
    \/ UpdateTurnMetrics
    \/ EndSession

SpecLifecycle == Init /\ [][NextLifecycle]_vars

\* the exit type recorded for a session, "" when there is none
RecordedExitType(doc) == Get(doc.exit_criteria, "exit_type", "")

\* what end_session writes on every exit
ExitFields(doc) ==
    <<doc.end_time, doc.exit_criteria.completion_status, RecordedExitType(doc)>>

\* end_time is set exactly when the session is completed with an exit type
EndedConsistently(doc) ==
    doc.end_time # None
    <=> (/\ doc.exit_criteria.completion_status = "completed"
         /\ RecordedExitType(doc) # "")

\* C39: in every state reached through create_session, start_phase,
\* end_phase, add_response, update_metrics and end_session, end_time is set
\* if and only if exit_criteria.completion_status is completed and an
\* exit_type is recorded; the three change only in a successful end_session
\* step on that session, which sets all of them.
C39_EndFieldsTogether ==
    [][/\ \A sid \in DOMAIN store' : EndedConsistently(store'[sid])
       /\ \A sid \in Sessions :
            ExitFields(store'[sid]) # ExitFields(store[sid])
            => /\ last'.op = "end_session"
               /\ last'.session_id = sid
               /\ last'.ret = TRUE
               /\ store'[sid].end_time # None
               /\ store'[sid].exit_criteria.completion_status = "completed"
               /\ RecordedExitType(store'[sid]) = last'.exit_type]_vars

\* C39 witness: a session with a started phase and a stored response has
\* been ended with an immediate exit; the three fields are set.
C39_Witness ==
    /\ Answered("end_session")
    /\ last.ret = TRUE
    /\ last.exit_type = "immediate"
    /\ LET doc == store[last.session_id]
       IN  /\ doc.end_time # None
           /\ doc.exit_criteria.completion_status = "completed"
           /\ RecordedExitType(doc) = "immediate"
           /\ DOMAIN doc.responses # {}
           /\ \E p \in PhaseNames : doc.phases[p].start_time # None

-----------------------------------------------------------------------------
(* PhaseManager.update_phase_completion and the set of phase records *)

\* PhaseManager.update_phase_completion: update_phase_status with the same
\* arguments
PM_update_phase_completion(st, session_id, phase, updates) ==
    update_phase_status(st, session_id, phase, updates)

PMUpdatePhaseCompletion ==
    \E sid \in SessionIds, phase \in PhaseInputs, updates \in StatusUpdates :
        LET out == PM_update_phase_completion(store, sid, phase, updates)
        IN  /\ steps < MaxSteps
            /\ Returns(out, Call("pm_update_phase_completion",
                                 [session_id |-> sid, phase |-> phase,
                                  keys |-> DOMAIN updates, ret |-> out.ret]))
            /\ steps' = steps + 1
            /\ UNCHANGED <<clock, pytest_loaded, concurrent>>

\* the Phase Manager with its completion flags
NextCompletion ==
    \/ CreateSession
    \/ PMStartPhase
    \/ PMEndPhase
    \/ PMUpdatePhaseCompletion
    \/ GetPhaseCompletionStatus

SpecCompletion == Init /\ [][NextCompletion]_vars

\* C40: the phase records of a session are always exactly the five fixed
\* phases: PhaseManager.end_phase and PhaseManager.update_phase_completion
\* called with a name outside the sequence return False and change nothing.
C40_FivePhaseRecords ==
    [][/\ \A sid \in DOMAIN store' : DOMAIN store'[sid].phases = PhaseNames
       /\ (/\ \/ Called("pm_end_phase")
              \/ Called("pm_update_phase_completion")
           /\ last'.phase \notin PhaseNames)
          => /\ last'.ret = FALSE
             /\ store' = store]_vars

====
